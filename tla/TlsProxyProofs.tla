--------------------------- MODULE TlsProxyProofs ---------------------------
(***************************************************************************)
(* Proofs about TlsProxy, for any clients, descriptor numbers, capacities  *)
(* and peers: the inductive invariant and what follows from it.            *)
(***************************************************************************)
EXTENDS TlsStreamsProofs, WellFoundedInduction

(* The loop's tables and who owns the numbers in them.                     *)
Tables ==
  /\ files \in [Fds -> Handles \cup {Nil}]
  /\ interest \in [Fds -> Masks \cup {Nil}]
  /\ callbacks \in [Fds -> Handles \cup {Nil}]
  /\ errors \in [Fds -> Handles \cup {Nil}]
  /\ connections \in [Fds -> Clients \cup {Nil}]
  /\ stage \in [Clients -> Stages]
  /\ conn \in [Clients -> ConnType]
  /\ wire \in [Clients -> WireType]
  /\ Loop!TablesAgree
  /\ Loop!SizeCountsRegistrations

Owner(fd) ==
  \/ connections[fd] = Nil /\ callbacks[fd] \in {Nil, Listener}
  \/ \E c \in Clients :
       /\ stage[c] = "open" /\ connections[fd] = c
       /\ fd \in {conn[c].clientFd, conn[c].backendFd}

Pair(c) ==
  /\ conn[c].clientFd \in Fds /\ conn[c].backendFd \in Fds
  /\ conn[c].clientFd # conn[c].backendFd
  /\ connections[conn[c].clientFd] = c /\ connections[conn[c].backendFd] = c
  /\ callbacks[conn[c].clientFd] = <<c, "client">>
  /\ callbacks[conn[c].backendFd] = <<c, "backend">>
  /\ Now(c) = MasksOf(conn[c])

Client(c) ==
  /\ conn[c] \in ConnType /\ WireOK(wire[c])
  /\ stage[c] # "closed" => Fits(conn[c], wire[c])
  /\ stage[c] = "open" => Pair(c)
  /\ stage[c] # "open" => conn[c] = NoConn

(* An event other than "hup" that waits in the batch is for a descriptor   *)
(* whose own direction has no backlog.                                     *)
Unblocked(fd) ==
  \A c \in Clients : stage[c] = "open" =>
    /\ fd = conn[c].clientFd => conn[c].toBackend = <<>>
    /\ fd = conn[c].backendFd => conn[c].toClient = <<>>

Events ==
  /\ batch \in Seq(Loop!Event)
  /\ \A i, j \in 1..Len(batch) : i # j => batch[i].fd # batch[j].fd
  /\ \A i \in 1..Len(batch) : "hup" \notin batch[i].mask => Unblocked(batch[i].fd)

Control ==
  /\ completions \in Int
  /\ pc \in {"poll", "drain", "event", "error", "exited", "threw", "crashed",
             "killed"}
  /\ event \in Loop!Event \cup {Loop!NoEvent}
  /\ self \in Handles \cup {Nil}
  /\ pc \in {"event", "error"} => event \in Loop!Event
  /\ pc = "event" =>
       /\ self = callbacks[event.fd] /\ self # Nil
       /\ Unblocked(event.fd)
       /\ \A i \in 1..Len(batch) : batch[i].fd # event.fd

IInv ==
  /\ Tables
  /\ \A fd \in Fds : Owner(fd)
  /\ \A c \in Clients : Client(c)
  /\ Events
  /\ Control

-----------------------------------------------------------------------------
(* The initial states. *)

LEMMA Constants ==
  /\ Fds \subseteq Nat /\ Fds # {} /\ IsFiniteSet(Fds)
  /\ Nil \notin Clients /\ Nil \notin Fds /\ Nil \notin Handles /\ Nil \notin Masks
  /\ Listener \in Handles
  /\ \A c \in Clients :
       /\ <<c, "client">> \in Handles /\ <<c, "backend">> \in Handles
       /\ <<c, "client">> # Listener /\ <<c, "backend">> # Listener
       /\ <<c, "client">> # <<c, "backend">>
  /\ Relaying[1] \in Masks /\ Relaying[2] \in Masks
  /\ ToBackend[1] \in Masks /\ ToBackend[2] \in Masks
  /\ ToClient[1] \in Masks /\ ToClient[2] \in Masks
<1>1. /\ Fds \subseteq Nat /\ Fds # {} /\ IsFiniteSet(Fds)
      /\ Nil \notin Clients /\ Nil \notin Fds /\ Nil \notin Handles /\ Nil \notin Masks
  BY ProxyAssumption DEF ProxyAssumption
<1>2. Listener \in Handles
  BY DEF Handles
<1>3. ASSUME NEW c \in Clients
      PROVE  /\ <<c, "client">> \in Handles /\ <<c, "backend">> \in Handles
             /\ <<c, "client">> # Listener /\ <<c, "backend">> # Listener
             /\ <<c, "client">> # <<c, "backend">>
  <2>1. <<c, "client">> \in Handles /\ <<c, "backend">> \in Handles
    BY DEF Handles
  <2>2. /\ <<c, "client">>[2] = "client" /\ <<c, "backend">>[2] = "backend"
        /\ <<Nil, "listener">>[2] = "listener"
    OBVIOUS
  <2> QED
    BY <2>1, <2>2 DEF Listener
<1>4. /\ Relaying[1] \in Masks /\ Relaying[2] \in Masks
      /\ ToBackend[1] \in Masks /\ ToBackend[2] \in Masks
      /\ ToClient[1] \in Masks /\ ToClient[2] \in Masks
  BY DEF Relaying, ToBackend, ToClient, Masks
<1> QED
  BY <1>1, <1>2, <1>3, <1>4

LEMMA LowestOK ==
  ASSUME NEW S, S \subseteq Nat, S # {}
  PROVE  Lowest(S) \in S
<1>1. PICK R : R = {ss \in Nat \X Nat : ss[1] < ss[2]} /\ IsWellFoundedOn(R, Nat)
  BY NatLessThanWellFounded DEF OpToRel
<1>2. PICK x \in S : \A y \in S : ~(<<y, x>> \in R)
  BY <1>1, WFMin
<1>3. \A y \in S : x <= y
  <2> TAKE y \in S
  <2>1. <<y, x>> \in Nat \X Nat /\ ~(<<y, x>> \in R)
    BY <1>2
  <2>2. ~(y < x)
    BY <1>1, <2>1
  <2> QED
    BY <2>1, <2>2
<1> QED
  BY <1>3 DEF Lowest

\* The instance of EventLoop counts as FiniteSets does.
LEMMA LoopCardinality == \A S : Loop!Cardinality(S) = Cardinality(S)
  BY DEF Loop!Cardinality, Cardinality

LEMMA RegisteredFinite == IsFiniteSet(Loop!Registered) /\ Loop!Registered \subseteq Fds
<1>1. Loop!Registered \subseteq Fds
  BY DEF Loop!Registered
<1> QED
  BY <1>1, Constants, FS_Subset

LEMMA NewFits == NoConn \in ConnType /\ Fits(NoConn, NewWire)
<1>1. NoConn \in ConnType
  BY EmptyUnits DEF NoConn, ConnType
<1>2. NewWire \in WireType
  BY EmptyUnits, Sizes DEF NewWire, WireType, Records
<1>3. Arrived(NewWire) = <<>> /\ Reached(NewWire) = <<>> /\ Unread(NewWire) = <<>>
  BY EmptyUnits DEF Arrived, Reached, Unread, NewWire
<1>4. /\ Len(<<>>) = 0 /\ Count(0) = <<>>
      /\ \A m \in Nat : [i \in 1..0 |-> m + i] = <<>>
  BY DEF Count
<1>5. WireOK(NewWire)
  <2>1. Len(NewWire.clientOut) <= Capacity /\ Len(NewWire.backendOut) <= Capacity
    BY Sizes DEF NewWire
  <2> QED
    BY <1>2, <1>3, <1>4, <2>1 DEF WireOK
<1>6. Taken(NewWire) = 0
  <2>1. NewWire.recordsSent = 0
    BY DEF NewWire
  <2>2. Len(Unread(NewWire)) = 0
    BY <1>3, <1>4
  <2> QED
    BY <2>1, <2>2 DEF Taken
<1>7. RestOf(<<>>, 0) = <<>>
  <2>1. 0 \in 0..Len(<<>>)
    BY <1>4
  <2> QED
    BY <2>1, EmptyUnits, CutInTwo
<1>8. ToClientOK(NoConn, NewWire)
  <2>1. /\ NoConn.toClient = <<>> /\ NewWire.pushed = 0
        /\ NewWire.backendIn = <<>> /\ NewWire.unitsSent = 0
    BY DEF NoConn, NewWire
  <2>2. (<<>> \o <<>>) \o <<>> = <<>>
    BY EmptyUnits
  <2> QED
    BY <1>3, <1>4, <1>7, <2>1, <2>2 DEF ToClientOK
<1>9. ToBackendOK(NoConn, NewWire)
  <2>1. NoConn.toBackend = <<>> /\ 0 * RecordUnits = 0 /\ <<>> \o <<>> = <<>>
    BY Sizes, EmptyUnits DEF NoConn
  <2> QED
    BY <1>3, <1>4, <1>6, <2>1 DEF ToBackendOK
<1>10. /\ Greeting(NewWire) /\ NewWire.pushed <= Len(NoConn.toClient)
       /\ ~NoConn.backendEOF /\ NoConn.toClient = <<>>
  BY <1>4 DEF Greeting, NewWire, NoConn
<1> QED
  BY <1>1, <1>5, <1>8, <1>9, <1>10 DEF Fits

LEMMA InitIInv == Init => IInv
<1> SUFFICES ASSUME Init PROVE IInv
  OBVIOUS
<1>1. PICK fd \in Fds : fd = Lowest(Fds)
  BY Constants, LowestOK
<1>2. /\ files = [f \in Fds |-> IF f = fd THEN Listener ELSE Nil]
      /\ interest = [f \in Fds |-> IF f = fd THEN {"in"} ELSE Nil]
      /\ callbacks = files /\ errors = files /\ size = 1 /\ batch = <<>>
      /\ completions = 0 /\ pc = "poll" /\ event = Loop!NoEvent /\ self = Nil
      /\ connections = [f \in Fds |-> Nil]
      /\ stage = [c \in Clients |-> "away"]
      /\ conn = [c \in Clients |-> NoConn]
      /\ wire = [c \in Clients |-> NewWire]
  BY <1>1 DEF Init
<1>3. Tables
  <2>1. {"in"} \in Masks /\ {"in"} # Nil
    BY Constants DEF Masks
  <2>2. Loop!TablesAgree
    BY <1>2, <2>1, Constants DEF Loop!TablesAgree
  <2>3. Loop!Registered = {fd}
    BY <1>2, Constants DEF Loop!Registered
  <2>4. Loop!SizeCountsRegistrations
    BY <1>2, <2>3, LoopCardinality, FS_Singleton DEF Loop!SizeCountsRegistrations
  <2>5. NoConn \in ConnType /\ NewWire \in WireType
    BY NewFits DEF Fits, WireOK
  <2> QED
    BY <1>2, <2>1, <2>2, <2>4, <2>5, Constants DEF Tables, Stages
<1>4. \A f \in Fds : Owner(f)
  BY <1>2 DEF Owner
<1>5. \A c \in Clients : Client(c)
  <2> TAKE c \in Clients
  <2>1. stage[c] = "away" /\ conn[c] = NoConn /\ wire[c] = NewWire
    BY <1>2
  <2> QED
    BY <2>1, NewFits DEF Client, Fits
<1>6. Events
  BY <1>2 DEF Events
<1>7. Control
  BY <1>2 DEF Control
<1> QED
  BY <1>3, <1>4, <1>5, <1>6, <1>7 DEF IInv

-----------------------------------------------------------------------------
(* The peers. *)

\* A step of a peer keeps the invariant if it keeps what is known of the one
\* connection it touches.
LEMMA PeerKeeps ==
  ASSUME IInv, NEW c \in Clients, NEW v, Harmless(conn[c], wire[c], v), Peer(c, v)
  PROVE  IInv'
<1>1. UNCHANGED <<loopVars, connections, stage, conn>> /\ wire' = [wire EXCEPT ![c] = v]
  BY DEF Peer
<1>2. /\ UNCHANGED <<files, interest, callbacks, errors, size, batch, completions>>
      /\ UNCHANGED <<pc, event, self, connections, stage, conn>>
  BY <1>1 DEF loopVars
<1>3. Tables'
  <2>1. v \in WireType
    BY DEF IInv, Client, Harmless, WireOK
  <2>2. wire' \in [Clients -> WireType]
    BY <1>1, <2>1 DEF IInv, Tables
  <2> QED
    BY <1>2, <2>2 DEF IInv, Tables, Loop!TablesAgree, Loop!SizeCountsRegistrations,
                      Loop!Registered
<1>4. \A fd \in Fds : Owner(fd)'
  BY <1>2 DEF IInv, Owner
<1>5. \A fd : Unblocked(fd)' <=> Unblocked(fd)
  BY <1>2 DEF Unblocked
<1>6. Events'
  BY <1>2, <1>5 DEF IInv, Events
<1>7. Control'
  BY <1>2, <1>5 DEF IInv, Control
<1>8. ASSUME NEW d \in Clients PROVE Client(d)'
  <2>1. Client(d)
    BY DEF IInv
  <2>2. /\ WireOK(wire'[d])
        /\ Fits(conn[d], wire[d]) => Fits(conn[d], wire'[d])
    <3>1. CASE d # c
      <4>1. wire'[d] = wire[d]
        BY <1>1, <3>1
      <4> QED
        BY <2>1, <4>1 DEF Client
    <3>2. CASE d = c
      <4>1. wire'[c] = v \/ wire'[c] = wire[c]
        BY <1>1
      <4> QED
        BY <2>1, <3>2, <4>1 DEF Client, Harmless
    <3> QED
      BY <3>1, <3>2
  <2>3. Pair(d)' <=> Pair(d)
    BY <1>2 DEF Pair, Now
  <2> QED
    BY <1>2, <2>1, <2>2, <2>3 DEF Client
<1> QED
  BY <1>3, <1>4, <1>6, <1>7, <1>8 DEF IInv

LEMMA ConnectsKeeps ==
  ASSUME IInv, NEW c \in Clients, ClientConnects(c)
  PROVE  IInv'
<1>1. /\ UNCHANGED <<files, interest, callbacks, errors, size, batch, completions>>
      /\ UNCHANGED <<pc, event, self, connections, wire, conn>>
      /\ stage[c] = "away" /\ stage' = [stage EXCEPT ![c] = "queued"]
  BY DEF ClientConnects, loopVars
<1>2. /\ \A d \in Clients : stage'[d] = "open" <=> stage[d] = "open"
      /\ \A d \in Clients : stage'[d] = "closed" <=> stage[d] = "closed"
      /\ stage' \in [Clients -> Stages]
  BY <1>1 DEF IInv, Tables, Stages
<1>3. Tables'
  BY <1>1, <1>2 DEF IInv, Tables, Loop!TablesAgree, Loop!SizeCountsRegistrations,
                    Loop!Registered
<1>4. \A fd \in Fds : Owner(fd)'
  BY <1>1, <1>2 DEF IInv, Owner
<1>5. \A fd : Unblocked(fd)' <=> Unblocked(fd)
  BY <1>1, <1>2 DEF Unblocked
<1>6. Events'
  BY <1>1, <1>5 DEF IInv, Events
<1>7. Control'
  BY <1>1, <1>5 DEF IInv, Control
<1>8. ASSUME NEW d \in Clients PROVE Client(d)'
  <2>1. Client(d)
    BY DEF IInv
  <2>2. Pair(d)' <=> Pair(d)
    BY <1>1 DEF Pair, Now
  <2> QED
    BY <1>1, <1>2, <2>1, <2>2 DEF Client
<1> QED
  BY <1>3, <1>4, <1>6, <1>7, <1>8 DEF IInv

\* Whatever a peer does.
LEMMA PeersKeep ==
  ASSUME IInv, NEW c \in Clients,
         \/ ClientSendsHello(c) \/ ClientSends(c) \/ BackendSends(c)
         \/ ClientReads(c) \/ BackendReads(c)
         \/ PeerCloses(c) \/ PeerResets(c) \/ ResetAnswersData(c)
  PROVE  IInv'
<1>1. CASE ClientSendsHello(c)
  BY <1>1, HelloOK, PeerKeeps DEF ClientSendsHello
<1>2. CASE ClientSends(c)
  BY <1>2, ClientSendsOK, PeerKeeps DEF ClientSends
<1>3. CASE BackendSends(c)
  BY <1>3, BackendSendsOK, PeerKeeps DEF BackendSends
<1>4. CASE ClientReads(c)
  BY <1>4, ClientReadsOK, PeerKeeps DEF ClientReads
<1>5. CASE BackendReads(c)
  BY <1>5, BackendReadsOK, PeerKeeps DEF BackendReads
<1>6. CASE PeerCloses(c)
  BY <1>6, EndsOK, PeerKeeps DEF PeerCloses
<1>7. CASE \E side : ResetOf(c, side)
  <2>1. CASE ResetOf(c, "client")
    BY <2>1, ResetOK, PeerKeeps DEF ResetOf
  <2>2. CASE \E side : side # "client" /\ ResetOf(c, side)
    BY <2>2, ResetOK, PeerKeeps DEF ResetOf
  <2> QED
    BY <1>7, <2>1, <2>2
<1>8. PeerResets(c) \/ ResetAnswersData(c) => \E side : ResetOf(c, side)
  BY DEF PeerResets, ResetAnswersData
<1> QED
  BY <1>1, <1>2, <1>3, <1>4, <1>5, <1>6, <1>7, <1>8

-----------------------------------------------------------------------------
(* The loop. *)

\* A reported condition is one the interest of the number's side allows: the
\* side whose direction has a backlog is asked about nothing.
LEMMA DeliverableOK ==
  ASSUME IInv, NEW fd \in Loop!Deliverable
  PROVE  /\ fd \in Fds /\ Loop!EventOf(fd) \in Loop!Event /\ Loop!EventOf(fd).fd = fd
         /\ "hup" \notin Loop!EventOf(fd).mask => Unblocked(fd)
<1>1. /\ fd \in Fds /\ Loop!Pending(fd) # {}
      /\ interest[fd] # Nil /\ files[fd] # Nil
  BY DEF Loop!Deliverable, Loop!Pending
<1>2. interest[fd] \in Masks /\ files[fd] \in Handles
  BY <1>1 DEF IInv, Tables
<1>3. Loop!Pending(fd) \subseteq interest[fd] \cup {"hup"}
  BY <1>1 DEF Loop!Pending
<1>4. Loop!EventOf(fd) \in Loop!Event
  BY <1>1, <1>2, <1>3 DEF Loop!EventOf, Loop!Event, Masks
<1>5. Loop!EventOf(fd).fd = fd /\ Loop!EventOf(fd).mask = Loop!Pending(fd)
  BY DEF Loop!EventOf
<1>6. ASSUME "hup" \notin Loop!Pending(fd), NEW c \in Clients, stage[c] = "open"
      PROVE  /\ fd = conn[c].clientFd => conn[c].toBackend = <<>>
             /\ fd = conn[c].backendFd => conn[c].toClient = <<>>
  <2>1. interest[fd] # {}
    BY <1>1, <1>3, <1>6
  <2>2. /\ Now(c) = MasksOf(conn[c])
        /\ conn[c].toBackend = <<>> \/ conn[c].toClient = <<>>
    BY <1>6 DEF IInv, Client, Pair, Fits
  <2>3. Now(c)[1] = interest[conn[c].clientFd] /\ Now(c)[2] = interest[conn[c].backendFd]
    BY DEF Now
  <2>4. ToBackend[1] = {} /\ ToClient[2] = {}
    BY DEF ToBackend, ToClient
  <2> QED
    BY <2>1, <2>2, <2>3, <2>4 DEF MasksOf
<1> QED
  BY <1>1, <1>4, <1>5, <1>6 DEF Unblocked

LEMMA BatchesOK ==
  ASSUME IInv, NEW s \in Loop!Batches
  PROVE  /\ s \in Seq(Loop!Event)
         /\ \A i, j \in 1..Len(s) : i # j => s[i].fd # s[j].fd
         /\ \A i \in 1..Len(s) : "hup" \notin s[i].mask => Unblocked(s[i].fd)
<1> DEFINE n == IF Cardinality(Loop!Deliverable) < Cardinality(Fds)
                  THEN Cardinality(Loop!Deliverable) ELSE Cardinality(Fds)
<1>1. Loop!Deliverable \subseteq Fds /\ IsFiniteSet(Loop!Deliverable)
  BY Constants, FS_Subset DEF Loop!Deliverable
<1>2. n \in Nat
  BY <1>1, Constants, FS_CardinalityType
<1>3. PICK t \in [1..n -> Loop!Deliverable] :
        /\ \A i, j \in 1..n : i # j => t[i] # t[j]
        /\ s = [i \in 1..n |-> Loop!EventOf(t[i])]
  BY LoopCardinality DEF Loop!Batches
<1> HIDE DEF n
<1>4. ASSUME NEW i \in 1..n
      PROVE  /\ s[i] \in Loop!Event /\ s[i].fd = t[i]
             /\ "hup" \notin s[i].mask => Unblocked(s[i].fd)
  <2>1. s[i] = Loop!EventOf(t[i]) /\ t[i] \in Loop!Deliverable
    BY <1>3
  <2> QED
    BY <2>1, DeliverableOK
<1>5. Len(s) = n /\ s \in Seq(Loop!Event)
  BY <1>2, <1>3, <1>4
<1>6. \A i, j \in 1..Len(s) : i # j => s[i].fd # s[j].fd
  <2> TAKE i, j \in 1..Len(s)
  <2>1. i \in 1..n /\ j \in 1..n /\ (i # j => t[i] # t[j])
    BY <1>3, <1>5
  <2> QED
    BY <1>4, <2>1
<1>7. \A i \in 1..Len(s) : "hup" \notin s[i].mask => Unblocked(s[i].fd)
  BY <1>4, <1>5
<1> QED
  BY <1>5, <1>6, <1>7

\* The relay's own state is no matter of the loop's.
LEMMA LoopKeeps ==
  ASSUME IInv, UNCHANGED <<files, interest, callbacks, errors, size>>,
         UNCHANGED <<connections, stage, conn, wire>>, Events', Control'
  PROVE  IInv'
<1>1. Tables'
  BY DEF IInv, Tables, Loop!TablesAgree, Loop!SizeCountsRegistrations, Loop!Registered
<1>2. \A fd \in Fds : Owner(fd)'
  BY DEF IInv, Owner
<1>3. \A c \in Clients : Pair(c)' <=> Pair(c)
  BY DEF Pair, Now
<1>4. \A c \in Clients : Client(c)'
  BY <1>3 DEF IInv, Client
<1> QED
  BY <1>1, <1>2, <1>4 DEF IInv

LEMMA PollKeeps == ASSUME IInv, Poll PROVE IInv'
<1> USE DEF Loop!kernelVars, Loop!tableVars
<1>1. /\ UNCHANGED <<files, interest, callbacks, errors, size>>
      /\ UNCHANGED <<connections, stage, conn, wire>>
  BY DEF Poll, Loop!PollWait, Loop!DispatchEvent, Loop!PollReturn
<1>2. \A fd : Unblocked(fd)' <=> Unblocked(fd)
  BY <1>1 DEF Unblocked
<1>3. Events /\ Control /\ Tables
  BY DEF IInv
<1>4. CASE Loop!PollWait
  <2>1. /\ batch' \in Loop!Batches /\ pc' = "drain"
        /\ completions' = Len(batch') + Len(<<>>)
        /\ UNCHANGED <<event, self>>
    BY <1>4 DEF Loop!PollWait
  <2>2. /\ batch' \in Seq(Loop!Event)
        /\ \A i, j \in 1..Len(batch') : i # j => batch'[i].fd # batch'[j].fd
        /\ \A i \in 1..Len(batch') : "hup" \notin batch'[i].mask => Unblocked(batch'[i].fd)
    BY <2>1, BatchesOK
  <2>3. Events'
    BY <1>2, <2>2 DEF Events
  <2>4. completions' \in Int
    BY <2>1, <2>2
  <2>5. Control'
    BY <1>3, <2>1, <2>4 DEF Control
  <2> QED
    BY <1>1, <2>3, <2>5, LoopKeeps
<1>5. CASE Loop!DispatchEvent
  <2>1. PICK e : e = Head(batch)
    OBVIOUS
  <2>2. /\ batch # <<>> /\ event' = e /\ batch' = Tail(batch) /\ self' = Loop!Table(e)[e.fd]
        /\ \/ self' = Nil /\ pc' = "crashed"
           \/ self' # Nil /\ pc' = (IF "hup" \in e.mask THEN "error" ELSE "event")
        /\ completions' = completions
    BY <1>5, <2>1 DEF Loop!DispatchEvent
  <2>3. batch \in Seq(Loop!Event)
    BY <1>3 DEF Events
  <2>4. /\ e = batch[1] /\ 1 \in 1..Len(batch) /\ batch' \in Seq(Loop!Event)
        /\ Len(batch') = Len(batch) - 1 /\ Len(batch) \in Nat /\ e \in Loop!Event
        /\ \A i \in 1..Len(batch') : /\ batch'[i] = batch[i + 1]
                                     /\ i + 1 \in 1..Len(batch) /\ i + 1 # 1
    BY <2>1, <2>2, <2>3
  <2>5. Events'
    <3>1. \A i, j \in 1..Len(batch') : i # j => batch'[i].fd # batch'[j].fd
      <4> TAKE i, j \in 1..Len(batch')
      <4>1. i # j => i + 1 # j + 1
        BY <2>4
      <4> QED
        BY <1>3, <2>4, <4>1 DEF Events
    <3>2. \A i \in 1..Len(batch') : "hup" \notin batch'[i].mask => Unblocked(batch'[i].fd)
      BY <1>3, <2>4 DEF Events
    <3> QED
      BY <1>2, <2>4, <3>1, <3>2 DEF Events
  <2>6. e.fd \in Fds
    BY <2>4 DEF Loop!Event
  <2>7. self' \in Handles \cup {Nil}
    BY <1>3, <2>2, <2>6 DEF Loop!Table, Tables
  <2>8. pc' = "event" =>
          /\ self' = callbacks'[event'.fd] /\ self' # Nil
          /\ Unblocked(event.fd)'
          /\ \A i \in 1..Len(batch') : batch'[i].fd # event'.fd
    <3> SUFFICES ASSUME pc' = "event"
                 PROVE  /\ self' = callbacks'[event'.fd] /\ self' # Nil
                        /\ Unblocked(event.fd)'
                        /\ \A i \in 1..Len(batch') : batch'[i].fd # event'.fd
      OBVIOUS
    <3>1. "hup" \notin e.mask /\ self' # Nil
      BY <2>2
    <3>2. self' = callbacks'[event'.fd]
      BY <1>1, <2>2, <3>1 DEF Loop!Table
    <3>3. Unblocked(e.fd)
      BY <1>3, <2>4, <3>1 DEF Events
    <3>4. \A i \in 1..Len(batch') : batch'[i].fd # e.fd
      BY <1>3, <2>4 DEF Events
    <3> QED
      BY <1>2, <2>2, <3>1, <3>2, <3>3, <3>4
  <2>9. Control'
    BY <1>3, <2>2, <2>4, <2>7, <2>8 DEF Control
  <2> QED
    BY <1>1, <2>5, <2>9, LoopKeeps
<1>6. CASE Loop!PollReturn
  <2>1. /\ UNCHANGED <<batch, event, self>> /\ completions' = 0 /\ pc' \in {"poll", "exited"}
    BY <1>6 DEF Loop!PollReturn
  <2>2. Events'
    BY <1>2, <1>3, <2>1 DEF Events
  <2>3. Control'
    BY <1>3, <2>1 DEF Control
  <2> QED
    BY <1>1, <2>2, <2>3, LoopKeeps
<1> QED
  BY <1>4, <1>5, <1>6 DEF Poll

\* Stopping, whether by a signal or by an exception that leaves the tables
\* as they are, and going back to the loop.
LEMMA StopKeeps ==
  ASSUME IInv, UNCHANGED <<files, interest, callbacks, errors, size, batch>>,
         UNCHANGED <<connections, stage, conn, wire>>,
         completions' \in Int, event' \in Loop!Event \cup {Loop!NoEvent},
         self' \in Handles \cup {Nil},
         pc' \in {"poll", "drain", "exited", "threw", "crashed", "killed"}
  PROVE  IInv'
<1>1. \A fd : Unblocked(fd)' <=> Unblocked(fd)
  BY DEF Unblocked
<1>2. Events'
  BY <1>1 DEF IInv, Events
<1>3. Control'
  BY DEF Control
<1> QED
  BY <1>2, <1>3, LoopKeeps

LEMMA InterruptedKeeps == ASSUME IInv, Interrupted PROVE IInv'
<1>1. /\ UNCHANGED <<files, interest, callbacks, errors, size, batch>>
      /\ UNCHANGED <<connections, stage, conn, wire, event, self>>
      /\ completions' = -1 /\ pc' = "exited"
  BY DEF Interrupted, Loop!PollInterrupted, Loop!kernelVars, Loop!tableVars
<1>2. event \in Loop!Event \cup {Loop!NoEvent} /\ self \in Handles \cup {Nil} /\ -1 \in Int
  BY DEF IInv, Control
<1> QED
  BY <1>1, <1>2, StopKeeps

LEMMA KilledKeeps == ASSUME IInv, Killed PROVE IInv'
<1>1. /\ event \in Loop!Event \cup {Loop!NoEvent} /\ self \in Handles \cup {Nil}
      /\ completions \in Int
  BY DEF IInv, Control
<1> QED
  BY <1>1, StopKeeps DEF Killed

LEMMA AcceptFailsKeeps == ASSUME IInv, AcceptFails PROVE IInv'
<1>1. completions \in Int
  BY DEF IInv, Control
<1> QED
  BY <1>1, StopKeeps DEF AcceptFails, BackToPoll

-----------------------------------------------------------------------------
(* The callbacks. *)

\* An open pair's numbers are its own.
LEMMA PairOK ==
  ASSUME IInv, NEW c \in Clients, stage[c] = "open"
  PROVE  /\ Pair(c) /\ Fits(conn[c], wire[c]) /\ WireOK(wire[c])
         /\ conn[c].clientFd \in Loop!Registered /\ conn[c].backendFd \in Loop!Registered
         /\ \A d \in Clients : stage[d] = "open" /\ d # c =>
              /\ conn[d].clientFd \notin {conn[c].clientFd, conn[c].backendFd}
              /\ conn[d].backendFd \notin {conn[c].clientFd, conn[c].backendFd}
<1>1. Pair(c) /\ Fits(conn[c], wire[c]) /\ WireOK(wire[c])
  BY DEF IInv, Client
<1>2. callbacks[conn[c].clientFd] # Nil /\ callbacks[conn[c].backendFd] # Nil
  BY <1>1, Constants DEF Pair
<1>3. conn[c].clientFd \in Loop!Registered /\ conn[c].backendFd \in Loop!Registered
  BY <1>1, <1>2 DEF Pair, Loop!Registered
<1>4. ASSUME NEW d \in Clients, stage[d] = "open", d # c
      PROVE  /\ conn[d].clientFd \notin {conn[c].clientFd, conn[c].backendFd}
             /\ conn[d].backendFd \notin {conn[c].clientFd, conn[c].backendFd}
  <2>1. Pair(d)
    BY <1>4 DEF IInv, Client
  <2> QED
    BY <1>1, <1>4, <2>1 DEF Pair
<1> QED
  BY <1>1, <1>3, <1>4

LEMMA KeepKeeps ==
  ASSUME IInv, NEW c \in Clients, stage[c] = "open",
         NEW k, NEW v, Fits(k, v), Keep(c, k, v, MasksOf(k)),
         k.clientFd = conn[c].clientFd, k.backendFd = conn[c].backendFd,
         NEW fd \in {conn[c].clientFd, conn[c].backendFd},
         \A i \in 1..Len(batch) : batch[i].fd # fd,
         fd = conn[c].clientFd /\ conn[c].toClient = <<>> => k.toClient = <<>>,
         fd = conn[c].backendFd /\ conn[c].toBackend = <<>> => k.toBackend = <<>>
  PROVE  IInv'
<1>1. PICK a, b, m, n : /\ a = conn[c].clientFd /\ b = conn[c].backendFd
                        /\ m = MasksOf(k)[1] /\ n = MasksOf(k)[2]
  OBVIOUS
<1>2. /\ interest' = [interest EXCEPT ![a] = m, ![b] = n]
      /\ conn' = [conn EXCEPT ![c] = k] /\ wire' = [wire EXCEPT ![c] = v]
      /\ UNCHANGED <<files, callbacks, errors, size, connections, stage, batch,
                     completions>>
      /\ pc' = "drain" /\ self' = Nil /\ event' = Loop!NoEvent
  BY <1>1 DEF Keep, BackToPoll
<1>3. /\ Pair(c) /\ a \in Loop!Registered /\ b \in Loop!Registered
      /\ a \in Fds /\ b \in Fds /\ a # b
      /\ \A d \in Clients : stage[d] = "open" /\ d # c =>
           conn[d].clientFd \notin {a, b} /\ conn[d].backendFd \notin {a, b}
  BY <1>1, PairOK DEF Pair
<1>4. MasksOf(k) = <<m, n>> /\ m \in Masks /\ n \in Masks /\ m # Nil /\ n # Nil
  <2>1. MasksOf(k) \in {Relaying, ToBackend, ToClient}
    BY DEF MasksOf
  <2>2. \A x \in {Relaying, ToBackend, ToClient} : x = <<x[1], x[2]>>
    BY DEF Relaying, ToBackend, ToClient
  <2> QED
    BY <1>1, <2>1, <2>2, Constants
<1>5. Tables /\ \A d \in Clients : Client(d)
  BY DEF IInv
<1>6. /\ conn'[c] = k /\ wire'[c] = v
      /\ \A d \in Clients : d # c => conn'[d] = conn[d] /\ wire'[d] = wire[d]
  BY <1>2, <1>5 DEF Tables
<1>7. \A d \in Clients : /\ conn'[d].clientFd = conn[d].clientFd
                         /\ conn'[d].backendFd = conn[d].backendFd
  BY <1>6
<1>8. \A f \in Fds : interest'[f] = (IF f = b THEN n ELSE IF f = a THEN m ELSE interest[f])
  BY <1>2, <1>3, <1>5 DEF Tables
<1>9. Tables'
  <2>1. /\ interest' \in [Fds -> Masks \cup {Nil}]
        /\ conn' \in [Clients -> ConnType] /\ wire' \in [Clients -> WireType]
    BY <1>2, <1>4, <1>5 DEF Tables, Fits, WireOK
  <2>2. callbacks[a] # Nil /\ callbacks[b] # Nil
    BY <1>3 DEF Loop!Registered
  <2>3. Loop!TablesAgree'
    BY <1>2, <1>4, <1>5, <1>8, <2>2 DEF Tables, Loop!TablesAgree
  <2>4. Loop!SizeCountsRegistrations'
    BY <1>2, <1>5 DEF Tables, Loop!SizeCountsRegistrations, Loop!Registered
  <2> QED
    BY <1>2, <1>5, <2>1, <2>3, <2>4 DEF Tables
<1>10. \A f \in Fds : Owner(f)'
  BY <1>2, <1>7 DEF IInv, Owner
<1>11. ASSUME NEW d \in Clients PROVE Client(d)'
  <2>1. CASE d # c
    <3>1. conn'[d] = conn[d] /\ wire'[d] = wire[d]
      BY <1>6, <2>1
    <3>2. stage[d] = "open" => Pair(d)'
      <4>1. stage[d] = "open" => /\ conn[d].clientFd \in Fds \ {a, b}
                                 /\ conn[d].backendFd \in Fds \ {a, b}
                                 /\ Pair(d)
        BY <1>3, <1>5, <2>1 DEF Client, Pair
      <4>2. stage[d] = "open" => Now(d)' = Now(d)
        BY <1>8, <3>1, <4>1 DEF Now
      <4> QED
        BY <1>2, <3>1, <4>1, <4>2 DEF Pair
    <3> QED
      BY <1>2, <1>5, <3>1, <3>2 DEF Client
  <2>2. CASE d = c
    <3>2. Now(c)' = MasksOf(k)
      BY <1>1, <1>3, <1>4, <1>7, <1>8 DEF Now
    <3>3. Pair(c)'
      BY <1>1, <1>2, <1>3, <1>6, <1>7, <3>2 DEF Pair
    <3>4. k \in ConnType /\ WireOK(v)
      BY DEF Fits
    <3> QED
      BY <1>2, <1>6, <2>2, <3>3, <3>4 DEF Client
  <2> QED
    BY <2>1, <2>2
<1>12. Events'
  <2>1. Events
    BY DEF IInv
  <2>2. ASSUME NEW i \in 1..Len(batch), "hup" \notin batch[i].mask
        PROVE  Unblocked(batch[i].fd)'
    <3>1. Unblocked(batch[i].fd) /\ batch[i].fd # fd
      BY <2>1, <2>2 DEF Events
    <3>2. ASSUME NEW d \in Clients, stage[d] = "open", d # c
          PROVE  /\ batch[i].fd = conn[d].clientFd => conn'[d].toBackend = <<>>
                 /\ batch[i].fd = conn[d].backendFd => conn'[d].toClient = <<>>
      BY <1>6, <3>1, <3>2 DEF Unblocked
    <3>3. /\ batch[i].fd = a => k.toBackend = <<>>
          /\ batch[i].fd = b => k.toClient = <<>>
      BY <1>1, <3>1 DEF Unblocked
    <3> QED
      BY <1>1, <1>2, <1>6, <1>7, <3>2, <3>3 DEF Unblocked
  <2> QED
    BY <1>2, <2>1, <2>2 DEF Events
<1>13. Control'
  BY <1>2 DEF IInv, Control
<1> QED
  BY <1>9, <1>10, <1>11, <1>12, <1>13 DEF IInv

LEMMA CloseConnKeeps ==
  ASSUME IInv, NEW c \in Clients, stage[c] = "open", NEW v, WireOK(v),
         CloseConn(c, v), BackToPoll
  PROVE  IInv'
<1>1. PICK a, b : a = conn[c].clientFd /\ b = conn[c].backendFd
  OBVIOUS
<1>2. PICK u : u = AfterClose(v)
  OBVIOUS
<1>3. /\ size' = size - Loop!Cardinality({fd \in {a, b} : callbacks[fd] # Nil})
      /\ callbacks' = [fd \in Fds |-> IF fd \in {a, b} THEN Nil ELSE callbacks[fd]]
      /\ errors' = [fd \in Fds |-> IF fd \in {a, b} THEN Nil ELSE errors[fd]]
      /\ interest' = [fd \in Fds |-> IF fd \in {a, b} THEN Nil ELSE interest[fd]]
      /\ files' = [fd \in Fds |-> IF fd \in {a, b} THEN Nil ELSE files[fd]]
      /\ connections' = [fd \in Fds |-> IF fd \in {a, b} THEN Nil ELSE connections[fd]]
      /\ stage' = [stage EXCEPT ![c] = "closed"]
      /\ conn' = [conn EXCEPT ![c] = NoConn]
      /\ wire' = [wire EXCEPT ![c] = u]
  BY <1>1, <1>2, LoopCardinality DEF CloseConn
<1>4. UNCHANGED <<batch, completions>> /\ pc' = "drain" /\ self' = Nil /\ event' = Loop!NoEvent
  BY DEF BackToPoll
<1>5. /\ Pair(c) /\ a \in Loop!Registered /\ b \in Loop!Registered
      /\ a \in Fds /\ b \in Fds /\ a # b
      /\ \A d \in Clients : stage[d] = "open" /\ d # c =>
           conn[d].clientFd \notin {a, b} /\ conn[d].backendFd \notin {a, b}
  BY <1>1, PairOK DEF Pair
<1>6. Tables /\ \A d \in Clients : Client(d)
  BY DEF IInv
<1>7. WireOK(u) /\ u \in WireType
  BY <1>2, AfterCloseOK DEF WireOK
<1>8. NoConn \in ConnType
  BY NewFits
<1>9. /\ conn'[c] = NoConn /\ wire'[c] = u /\ stage'[c] = "closed"
      /\ \A d \in Clients : d # c => /\ conn'[d] = conn[d] /\ wire'[d] = wire[d]
                                     /\ stage'[d] = stage[d]
  BY <1>3, <1>6 DEF Tables
<1>10. Tables'
  <2>1. /\ conn' \in [Clients -> ConnType] /\ wire' \in [Clients -> WireType]
        /\ stage' \in [Clients -> Stages]
    BY <1>3, <1>6, <1>7, <1>8 DEF Tables, Stages
  <2>2. /\ files' \in [Fds -> Handles \cup {Nil}]
        /\ interest' \in [Fds -> Masks \cup {Nil}]
        /\ callbacks' \in [Fds -> Handles \cup {Nil}]
        /\ errors' \in [Fds -> Handles \cup {Nil}]
        /\ connections' \in [Fds -> Clients \cup {Nil}]
    BY <1>3, <1>6 DEF Tables
  <2>3. Loop!TablesAgree'
    BY <1>3, <1>6 DEF Tables, Loop!TablesAgree
  <2>4. Loop!SizeCountsRegistrations'
    <3>1. Loop!Registered' = Loop!Registered \ {a, b}
      BY <1>3 DEF Loop!Registered
    <3>2. {fd \in {a, b} : callbacks[fd] # Nil} = {a, b}
      BY <1>5 DEF Loop!Registered
    <3>3. PICK R : R = Loop!Registered /\ IsFiniteSet(R) /\ a \in R /\ b \in R
      BY <1>5, RegisteredFinite
    <3>4. R \cap {a, b} = {a, b}
      BY <3>3
    <3>5. Cardinality(R \ {a, b}) = Cardinality(R) - Cardinality(R \cap {a, b})
      BY <3>3, FS_Difference
    <3>6. size = Cardinality(R)
      BY <1>6, <3>3, LoopCardinality DEF Tables, Loop!SizeCountsRegistrations
    <3>7. size' = size - Cardinality({a, b})
      BY <1>3, <3>2, LoopCardinality
    <3>8. size' = Cardinality(Loop!Registered')
      BY <3>1, <3>3, <3>4, <3>5, <3>6, <3>7
    <3> QED
      BY <3>8, LoopCardinality DEF Loop!SizeCountsRegistrations
  <2> QED
    BY <2>1, <2>2, <2>3, <2>4 DEF Tables
<1>11. ASSUME NEW fd \in Fds PROVE Owner(fd)'
  <2>1. Owner(fd)
    BY DEF IInv
  <2>2. CASE fd \in {a, b}
    BY <1>3, <2>2 DEF Owner
  <2>3. CASE fd \notin {a, b}
    <3>1. connections'[fd] = connections[fd] /\ callbacks'[fd] = callbacks[fd]
      BY <1>3, <2>3
    <3>2. ASSUME NEW d \in Clients, stage[d] = "open", connections[fd] = d,
                 fd \in {conn[d].clientFd, conn[d].backendFd}
          PROVE  Owner(fd)'
      <4>1. d # c
        BY <1>1, <2>3, <3>2
      <4>2. conn'[d] = conn[d] /\ stage'[d] = "open"
        BY <1>9, <3>2, <4>1
      <4> QED
        BY <3>1, <3>2, <4>2 DEF Owner
    <3> QED
      BY <2>1, <3>1, <3>2 DEF Owner
  <2> QED
    BY <2>2, <2>3
<1>12. ASSUME NEW d \in Clients PROVE Client(d)'
  <2>1. CASE d = c
    BY <1>7, <1>8, <1>9, <2>1 DEF Client
  <2>2. CASE d # c
    <3>1. conn'[d] = conn[d] /\ wire'[d] = wire[d] /\ stage'[d] = stage[d]
      BY <1>9, <2>2
    <3>2. ASSUME stage[d] = "open" PROVE Pair(d)'
      <4>1. PICK x, y : x = conn[d].clientFd /\ y = conn[d].backendFd
        OBVIOUS
      <4>2. x \in Fds \ {a, b} /\ y \in Fds \ {a, b} /\ Pair(d)
        BY <1>5, <1>6, <2>2, <3>2, <4>1 DEF Client, Pair
      <4>3. /\ connections'[x] = connections[x] /\ connections'[y] = connections[y]
            /\ callbacks'[x] = callbacks[x] /\ callbacks'[y] = callbacks[y]
            /\ interest'[x] = interest[x] /\ interest'[y] = interest[y]
        BY <1>3, <4>2
      <4>4. Now(d)' = Now(d)
        BY <3>1, <4>1, <4>3 DEF Now
      <4> QED
        BY <3>1, <4>1, <4>2, <4>3, <4>4 DEF Pair
    <3> QED
      BY <1>6, <3>1, <3>2 DEF Client
  <2> QED
    BY <2>1, <2>2
<1>13. \A fd : Unblocked(fd) => Unblocked(fd)'
  BY <1>9 DEF Unblocked
<1>14. Events'
  BY <1>4, <1>13 DEF IInv, Events
<1>15. Control'
  BY <1>4 DEF IInv, Control
<1> QED
  BY <1>10, <1>11, <1>12, <1>14, <1>15 DEF IInv

LEMMA CloseKeeps ==
  ASSUME IInv, NEW c \in Clients, stage[c] = "open", NEW v, WireOK(v), Close(c, v)
  PROVE  IInv'
BY CloseConnKeeps, KilledKeeps DEF Close

\* The event's number is one of an open pair's, and the closure that runs is
\* that side's.
LEMMA EventOfPair ==
  ASSUME IInv, event \in Loop!Event, connections[event.fd] # Nil
  PROVE  \E c \in Clients :
           /\ c = connections[event.fd] /\ stage[c] = "open"
           /\ \/ event.fd = conn[c].clientFd /\ callbacks[event.fd] = <<c, "client">>
              \/ event.fd = conn[c].backendFd /\ callbacks[event.fd] = <<c, "backend">>
<1>1. event.fd \in Fds
  BY DEF Loop!Event
<1>2. Owner(event.fd)
  BY <1>1 DEF IInv
<1>3. PICK c \in Clients :
        /\ stage[c] = "open" /\ connections[event.fd] = c
        /\ event.fd \in {conn[c].clientFd, conn[c].backendFd}
  BY <1>2 DEF Owner
<1>4. Pair(c)
  BY <1>3, PairOK
<1> QED
  BY <1>3, <1>4 DEF Pair

\* What comes out of the callback of an open pair, which is that of the side
\* whose number the event has.
LEMMA OutcomeOfPair ==
  ASSUME IInv, OnPairEvent, NEW c \in Clients, c = connections[event.fd], stage[c] = "open",
         NEW o \in IF self[2] = "client"
                     THEN OnClientFdEvent(conn[c], wire[c], Now(c))
                     ELSE OnBackendFdEvent(conn[c], wire[c], Now(c))
  PROVE  /\ OutcomeOK(conn[c], o)
         /\ o.end = "open" =>
              \/ /\ event.fd = conn[c].clientFd
                 /\ conn[c].toClient = <<>> => o.conn.toClient = <<>>
                 /\ event.fd # conn[c].backendFd
              \/ /\ event.fd = conn[c].backendFd
                 /\ conn[c].toBackend = <<>> => o.conn.toBackend = <<>>
                 /\ event.fd # conn[c].clientFd
<1>1. /\ connections[event.fd] # Nil /\ event \in Loop!Event
      /\ self = callbacks[event.fd] /\ Unblocked(event.fd)
  BY DEF OnPairEvent, IInv, Control
<1>2. \/ event.fd = conn[c].clientFd /\ callbacks[event.fd] = <<c, "client">>
      \/ event.fd = conn[c].backendFd /\ callbacks[event.fd] = <<c, "backend">>
  BY <1>1, EventOfPair
<1>3. Fits(conn[c], wire[c]) /\ Now(c) = MasksOf(conn[c])
  BY PairOK DEF Pair
<1>4. conn[c].clientFd # conn[c].backendFd
  BY <1>2, PairOK DEF Pair
<1>5. CASE event.fd = conn[c].clientFd /\ callbacks[event.fd] = <<c, "client">>
  <2>1. self[2] = "client"
    <3>1. self = <<c, "client">>
      BY <1>1, <1>5, Zenon
    <3> QED
      BY <3>1
  <2>2. conn[c].toBackend = <<>>
    BY <1>1, <1>2, <1>5 DEF Unblocked
  <2>3. o \in OnClientFdEvent(conn[c], wire[c], MasksOf(conn[c]))
    BY <1>3, <2>1
  <2>4. /\ OutcomeOK(conn[c], o)
        /\ o.end = "open" /\ conn[c].toClient = <<>> => o.conn.toClient = <<>>
    BY <1>3, <2>2, <2>3, OnClientFdEventOK
  <2> QED
    BY <1>4, <1>5, <2>4
<1>6. CASE event.fd = conn[c].backendFd /\ callbacks[event.fd] = <<c, "backend">>
  <2>1. self[2] # "client"
    <3>1. self = <<c, "backend">>
      BY <1>1, <1>6, Zenon
    <3> QED
      BY <3>1
  <2>2. conn[c].toClient = <<>>
    BY <1>1, <1>2, <1>6 DEF Unblocked
  <2>3. o \in OnBackendFdEvent(conn[c], wire[c], MasksOf(conn[c]))
    BY <1>3, <2>1
  <2>4. /\ OutcomeOK(conn[c], o)
        /\ o.end = "open" /\ conn[c].toBackend = <<>> => o.conn.toBackend = <<>>
    BY <1>3, <2>2, <2>3, OnBackendFdEventOK
  <2> QED
    BY <1>4, <1>6, <2>4
<1> QED
  BY <1>2, <1>5, <1>6

LEMMA OnPairEventKeeps == ASSUME IInv, OnPairEvent PROVE IInv'
<1>1. /\ pc = "event" /\ connections[event.fd] # Nil
      /\ event \in Loop!Event /\ self = callbacks[event.fd]
      /\ Unblocked(event.fd)
      /\ \A i \in 1..Len(batch) : batch[i].fd # event.fd
  BY DEF OnPairEvent, IInv, Control
<1>2. PICK c \in Clients :
        /\ c = connections[event.fd] /\ stage[c] = "open"
        /\ \/ event.fd = conn[c].clientFd /\ callbacks[event.fd] = <<c, "client">>
           \/ event.fd = conn[c].backendFd /\ callbacks[event.fd] = <<c, "backend">>
  BY <1>1, EventOfPair
<1>3. PICK o \in IF self[2] = "client"
                   THEN OnClientFdEvent(conn[c], wire[c], Now(c))
                   ELSE OnBackendFdEvent(conn[c], wire[c], Now(c)) :
        \/ o.end = "open"  /\ Keep(c, o.conn, o.wire, o.masks)
        \/ o.end = "close" /\ Close(c, o.wire)
        \/ o.end = "kill"  /\ Killed
  BY <1>2 DEF OnPairEvent, Handle
<1>4. Fits(conn[c], wire[c]) /\ Now(c) = MasksOf(conn[c])
  BY <1>2, PairOK DEF Pair
<1>5. /\ OutcomeOK(conn[c], o)
      /\ o.end = "open" =>
           \/ /\ event.fd = conn[c].clientFd
              /\ conn[c].toClient = <<>> => o.conn.toClient = <<>>
              /\ event.fd # conn[c].backendFd
           \/ /\ event.fd = conn[c].backendFd
              /\ conn[c].toBackend = <<>> => o.conn.toBackend = <<>>
              /\ event.fd # conn[c].clientFd
  BY <1>2, <1>3, OutcomeOfPair
<1>6. CASE o.end = "open" /\ Keep(c, o.conn, o.wire, o.masks)
  <2>1. PICK k, v : k = o.conn /\ v = o.wire
    OBVIOUS
  <2>2. /\ Fits(k, v) /\ Keep(c, k, v, MasksOf(k))
        /\ k.clientFd = conn[c].clientFd /\ k.backendFd = conn[c].backendFd
    BY <1>5, <1>6, <2>1 DEF OutcomeOK
  <2>3. PICK fd \in {conn[c].clientFd, conn[c].backendFd} :
          /\ fd = event.fd
          /\ fd = conn[c].clientFd /\ conn[c].toClient = <<>> => k.toClient = <<>>
          /\ fd = conn[c].backendFd /\ conn[c].toBackend = <<>> => k.toBackend = <<>>
    BY <1>5, <1>6, <2>1
  <2> QED
    BY <1>1, <1>2, <2>2, <2>3, KeepKeeps
<1>7. CASE o.end = "close" /\ Close(c, o.wire)
  <2>1. WireOK(o.wire)
    BY <1>5, <1>7 DEF OutcomeOK
  <2> QED
    BY <1>2, <1>7, <2>1, CloseKeeps
<1>8. CASE Killed
  BY <1>8, KilledKeeps
<1> QED
  BY <1>3, <1>6, <1>7, <1>8

LEMMA OnErrorKeeps == ASSUME IInv, OnError PROVE IInv'
<1>1. event \in Loop!Event /\ connections[event.fd] # Nil
  BY DEF OnError, IInv, Control
<1>2. PICK c \in Clients : c = connections[event.fd] /\ stage[c] = "open"
  BY <1>1, EventOfPair
<1>3. Close(c, wire[c]) /\ WireOK(wire[c])
  BY <1>2, PairOK DEF OnError
<1> QED
  BY <1>2, <1>3, CloseKeeps

\* A number nobody has open is nobody's.
LEMMA FreeOK ==
  ASSUME IInv, NEW fd \in FreeFds
  PROVE  /\ fd \in Fds /\ files[fd] = Nil /\ callbacks[fd] = Nil /\ interest[fd] = Nil
         /\ connections[fd] = Nil /\ fd \notin Loop!Registered
         /\ \A c \in Clients : stage[c] = "open" =>
              conn[c].clientFd # fd /\ conn[c].backendFd # fd
<1>1. fd \in Fds /\ files[fd] = Nil
  BY DEF FreeFds, Loop!Free
<1>2. callbacks[fd] = Nil /\ interest[fd] = Nil
  BY <1>1 DEF IInv, Tables, Loop!TablesAgree
<1>3. fd \notin Loop!Registered
  BY <1>2 DEF Loop!Registered
<1>4. \A c \in Clients : stage[c] = "open" => conn[c].clientFd # fd /\ conn[c].backendFd # fd
  BY <1>3, PairOK
<1>5. connections[fd] = Nil
  <2>1. Owner(fd)
    BY <1>1 DEF IInv
  <2> QED
    BY <1>4, <2>1 DEF Owner
<1> QED
  BY <1>1, <1>2, <1>3, <1>4, <1>5

\* The numbers of two new descriptors.
LEMMA TwoNumbers ==
  ASSUME Cardinality(FreeFds) >= 2
  PROVE  /\ Lowest(FreeFds) \in FreeFds
         /\ Lowest(FreeFds \ {Lowest(FreeFds)}) \in FreeFds
         /\ Lowest(FreeFds) # Lowest(FreeFds \ {Lowest(FreeFds)})
<1>1. FreeFds \subseteq Nat /\ IsFiniteSet(FreeFds)
  BY Constants, FS_Subset DEF FreeFds
<1>2. FreeFds # {}
  BY FS_EmptySet
<1>3. PICK f \in FreeFds : f = Lowest(FreeFds)
  BY <1>1, <1>2, LowestOK
<1>4. FreeFds \ {f} # {}
  <2>1. Cardinality(FreeFds \ {f}) = Cardinality(FreeFds) - 1
    BY <1>1, FS_RemoveElement
  <2>2. Cardinality(FreeFds) \in Nat
    BY <1>1, FS_CardinalityType
  <2> QED
    BY <2>1, <2>2, FS_EmptySet
<1>5. FreeFds \ {f} \subseteq Nat
  BY <1>1
<1>6. Lowest(FreeFds \ {f}) \in FreeFds \ {f}
  BY <1>4, <1>5, LowestOK
<1> QED
  BY <1>3, <1>6

\* A client's connection ends before the relay has a pair for it.
LEMMA TurnedAway ==
  ASSUME IInv, NEW c \in Clients, stage[c] = "queued",
         stage' = [stage EXCEPT ![c] = "closed"],
         wire' = [wire EXCEPT ![c] = AfterClose(@)] \/ UNCHANGED wire,
         UNCHANGED <<interest, callbacks, errors, size, batch, connections, conn>>,
         files' \in [Fds -> Handles \cup {Nil}],
         \A fd \in Fds : files'[fd] = files[fd] \/ files[fd] = Nil,
         completions' \in Int, event' \in Loop!Event \cup {Loop!NoEvent},
         self' \in Handles \cup {Nil}, pc' \in {"drain", "threw"}
  PROVE  IInv'
<1>1. Tables /\ Client(c)
  BY DEF IInv
<1>2. PICK u : /\ wire' = [wire EXCEPT ![c] = u] /\ WireOK(u)
  <2>1. CASE wire' = [wire EXCEPT ![c] = AfterClose(@)]
    BY <1>1, <2>1, AfterCloseOK DEF Client
  <2>2. CASE UNCHANGED wire
    <3>1. wire = [wire EXCEPT ![c] = wire[c]]
      BY <1>1 DEF Tables
    <3> QED
      BY <1>1, <2>2, <3>1 DEF Client
  <2> QED
    BY <2>1, <2>2
<1>3. /\ wire'[c] = u /\ stage'[c] = "closed"
      /\ \A d \in Clients : d # c => wire'[d] = wire[d] /\ stage'[d] = stage[d]
      /\ \A d \in Clients : stage'[d] = "open" <=> stage[d] = "open"
  BY <1>1, <1>2 DEF Tables
<1>4. Tables'
  <2>1. wire' \in [Clients -> WireType] /\ stage' \in [Clients -> Stages]
    BY <1>1, <1>2 DEF Tables, Stages, WireOK
  <2>2. Loop!TablesAgree'
    BY <1>1, Constants DEF Tables, Loop!TablesAgree
  <2>3. Loop!SizeCountsRegistrations'
    BY <1>1 DEF Tables, Loop!SizeCountsRegistrations, Loop!Registered
  <2> QED
    BY <1>1, <2>1, <2>2, <2>3 DEF Tables
<1>5. \A fd \in Fds : Owner(fd)'
  BY <1>3 DEF IInv, Owner
<1>6. ASSUME NEW d \in Clients PROVE Client(d)'
  <2>1. Client(d)
    BY DEF IInv
  <2>2. Pair(d)' <=> Pair(d)
    BY DEF Pair, Now
  <2> QED
    BY <1>1, <1>2, <1>3, <2>1, <2>2 DEF Client
<1>7. \A fd : Unblocked(fd)' <=> Unblocked(fd)
  BY <1>3 DEF Unblocked
<1>8. Events'
  BY <1>7 DEF IInv, Events
<1>9. Control'
  BY DEF Control
<1> QED
  BY <1>4, <1>5, <1>6, <1>8, <1>9 DEF IInv

LEMMA ConnectThrowsKeeps == ASSUME IInv, ConnectThrows PROVE IInv'
<1>1. FreeFds # {} /\ FreeFds \subseteq Nat
  BY Constants DEF ConnectThrows, FreeFds
<1>2. PICK f \in FreeFds : f = Lowest(FreeFds)
  BY <1>1, LowestOK
<1>3. PICK c \in Clients :
        /\ stage[c] = "queued"
        /\ files' = [files EXCEPT ![f] = <<c, "client">>]
        /\ stage' = [stage EXCEPT ![c] = "closed"]
  BY <1>2 DEF ConnectThrows
<1>4. files[f] = Nil /\ f \in Fds
  BY FreeOK
<1>5. /\ files' \in [Fds -> Handles \cup {Nil}]
      /\ \A fd \in Fds : files'[fd] = files[fd] \/ files[fd] = Nil
  BY <1>3, <1>4, Constants DEF IInv, Tables
<1>6. /\ UNCHANGED <<interest, callbacks, errors, size, batch, connections, conn>>
      /\ UNCHANGED <<completions, event, self, wire>> /\ pc' = "threw"
  BY DEF ConnectThrows
<1>7. /\ completions' \in Int /\ event' \in Loop!Event \cup {Loop!NoEvent}
      /\ self' \in Handles \cup {Nil}
  BY <1>6 DEF IInv, Control
<1> QED
  BY <1>3, <1>5, <1>6, <1>7, TurnedAway

LEMMA OnClientConnectKeeps ==
  ASSUME IInv, NEW c \in Clients, OnClientConnect(c) PROVE IInv'
<1>1. PICK f \in FreeFds, g \in FreeFds :
        f = Lowest(FreeFds) /\ g = Lowest(FreeFds \ {f}) /\ f # g
  <2>1. Cardinality(FreeFds) >= 2
    BY DEF OnClientConnect
  <2> QED
    BY <2>1, TwoNumbers
<1>2. PICK cl, bk : cl = <<c, "client">> /\ bk = <<c, "backend">>
  OBVIOUS
<1>3. /\ stage[c] = "queued"
      /\ pc' = "drain" /\ self' = Nil /\ event' = Loop!NoEvent
      /\ UNCHANGED <<batch, completions>>
  BY DEF OnClientConnect, BackToPoll
<1>4. CASE /\ files' = [files EXCEPT ![f] = cl, ![g] = bk]
           /\ interest' = [interest EXCEPT ![f] = {"in"}, ![g] = {"in"}]
           /\ callbacks' = [callbacks EXCEPT ![f] = cl, ![g] = bk]
           /\ errors' = [errors EXCEPT ![f] = cl, ![g] = bk]
           /\ size' = size + 2
           /\ connections' = [connections EXCEPT ![f] = c, ![g] = c]
           /\ stage' = [stage EXCEPT ![c] = "open"]
           /\ conn' = [conn EXCEPT ![c].clientFd = f, ![c].backendFd = g]
           /\ UNCHANGED wire
  <2>1. Tables /\ \A d \in Clients : Client(d)
    BY DEF IInv
  <2>2. /\ \A x \in {f, g} : /\ x \in Fds /\ files[x] = Nil /\ callbacks[x] = Nil
                             /\ interest[x] = Nil /\ x \notin Loop!Registered
        /\ \A d \in Clients : stage[d] = "open" =>
             conn[d].clientFd \notin {f, g} /\ conn[d].backendFd \notin {f, g}
    BY FreeOK
  <2>3. /\ cl \in Handles /\ bk \in Handles /\ cl # Nil /\ bk # Nil
        /\ {"in"} \in Masks /\ {"in"} # Nil
    BY <1>2, Constants DEF Masks
  <2>4. PICK k : k = [NoConn EXCEPT !.clientFd = f, !.backendFd = g]
    OBVIOUS
  <2>5. /\ Fits(k, wire[c]) /\ k.clientFd = f /\ k.backendFd = g
         /\ k.toBackend = <<>> /\ k.toClient = <<>>
    <3>1. Fits(NoConn, wire[c])
      BY <1>3, <2>1 DEF Client
    <3>2. /\ k.clientFd = f /\ k.backendFd = g /\ k.toBackend = <<>> /\ k.toClient = <<>>
          /\ k.backendEOF = FALSE /\ k.secure = FALSE
      BY <2>4 DEF NoConn
    <3>3. k \in ConnType
      BY <2>2, <2>4, EmptyUnits DEF NoConn, ConnType
    <3>4. NoConn.toBackend = <<>> /\ NoConn.toClient = <<>> /\ NoConn.backendEOF = FALSE
      BY DEF NoConn
    <3>5. ToClientOK(k, wire[c]) /\ ToBackendOK(k, wire[c])
      BY <3>1, <3>2, <3>4 DEF Fits, ToClientOK, ToBackendOK
    <3> QED
      BY <3>1, <3>2, <3>3, <3>4, <3>5 DEF Fits
  <2>6. conn' = [conn EXCEPT ![c] = k]
    <3>1. conn[c] = NoConn
      BY <1>3, <2>1 DEF Client
    <3> QED
      BY <1>4, <2>4, <3>1 DEF NoConn
  <2>7. /\ conn'[c] = k /\ stage'[c] = "open"
        /\ \A d \in Clients : d # c => conn'[d] = conn[d] /\ stage'[d] = stage[d]
    BY <1>4, <2>1, <2>6 DEF Tables
  <2>8. \A x \in Fds :
          /\ interest'[x] = (IF x \in {f, g} THEN {"in"} ELSE interest[x])
          /\ callbacks'[x] = (IF x = g THEN bk ELSE IF x = f THEN cl ELSE callbacks[x])
          /\ errors'[x] = (IF x = g THEN bk ELSE IF x = f THEN cl ELSE errors[x])
          /\ files'[x] = (IF x = g THEN bk ELSE IF x = f THEN cl ELSE files[x])
          /\ connections'[x] = (IF x \in {f, g} THEN c ELSE connections[x])
    BY <1>4, <2>1, <2>2 DEF Tables
  <2>9. Tables'
    <3>1. k \in ConnType
      BY <2>5 DEF Fits
    <3>2. /\ files' \in [Fds -> Handles \cup {Nil}]
          /\ interest' \in [Fds -> Masks \cup {Nil}]
          /\ callbacks' \in [Fds -> Handles \cup {Nil}]
          /\ errors' \in [Fds -> Handles \cup {Nil}]
          /\ connections' \in [Fds -> Clients \cup {Nil}]
          /\ stage' \in [Clients -> Stages]
          /\ conn' \in [Clients -> ConnType]
          /\ wire' \in [Clients -> WireType]
      BY <1>4, <2>1, <2>3, <2>6, <3>1 DEF Tables, Stages
    <3>3. Loop!TablesAgree'
      BY <1>1, <2>1, <2>3, <2>8 DEF Tables, Loop!TablesAgree
    <3>4. Loop!Registered' = (Loop!Registered \cup {f}) \cup {g}
      BY <2>2, <2>3, <2>8 DEF Loop!Registered
    <3>5. PICK R : R = Loop!Registered /\ IsFiniteSet(R) /\ f \notin R /\ g \notin R
      BY <2>2, RegisteredFinite
    <3>6. IsFiniteSet(R \cup {f}) /\ Cardinality(R \cup {f}) = Cardinality(R) + 1
      BY <3>5, FS_AddElement
    <3>7. Cardinality((R \cup {f}) \cup {g}) = Cardinality(R \cup {f}) + 1
      BY <1>1, <3>5, <3>6, FS_AddElement
    <3>8. Cardinality(R) \in Nat /\ size = Cardinality(R)
      BY <2>1, <3>5, LoopCardinality, FS_CardinalityType
         DEF Tables, Loop!SizeCountsRegistrations
    <3>9. size' = Cardinality(Loop!Registered')
      BY <1>4, <3>4, <3>5, <3>6, <3>7, <3>8
    <3>10. Loop!SizeCountsRegistrations'
      BY <3>9, LoopCardinality DEF Loop!SizeCountsRegistrations
    <3> QED
      BY <3>2, <3>3, <3>10 DEF Tables
  <2>10. ASSUME NEW fd \in Fds PROVE Owner(fd)'
    <3>1. Owner(fd)
      BY DEF IInv
    <3>2. CASE fd \in {f, g}
      <4>1. /\ stage'[c] = "open" /\ connections'[fd] = c
            /\ fd \in {conn'[c].clientFd, conn'[c].backendFd}
        BY <2>5, <2>7, <2>8, <3>2
      <4> QED
        BY <4>1 DEF Owner
    <3>3. CASE fd \notin {f, g}
      <4>1. connections'[fd] = connections[fd] /\ callbacks'[fd] = callbacks[fd]
        BY <2>8, <3>3
      <4>2. \A d \in Clients : stage[d] = "open" => stage'[d] = "open" /\ conn'[d] = conn[d]
        BY <1>3, <2>7
      <4> QED
        BY <3>1, <4>1, <4>2 DEF Owner
    <3> QED
      BY <3>2, <3>3
  <2>11. ASSUME NEW d \in Clients PROVE Client(d)'
    <3>1. CASE d = c
      <4>1. Now(c)' = <<{"in"}, {"in"}>>
        BY <2>2, <2>5, <2>7, <2>8 DEF Now
      <4>2. MasksOf(k) = <<{"in"}, {"in"}>>
        BY <2>5 DEF MasksOf, Relaying
      <4>3. Pair(c)'
        <5>1. /\ f \in Fds /\ g \in Fds /\ f # g
              /\ conn'[c].clientFd = f /\ conn'[c].backendFd = g
          BY <1>1, <2>2, <2>5, <2>7
        <5>2. /\ connections'[f] = c /\ connections'[g] = c
              /\ callbacks'[f] = <<c, "client">> /\ callbacks'[g] = <<c, "backend">>
          BY <1>2, <2>8, <5>1
        <5>3. Now(c)' = MasksOf(conn[c])'
          BY <2>7, <4>1, <4>2 DEF MasksOf
        <5> QED
          BY <5>1, <5>2, <5>3 DEF Pair
      <4>4. k \in ConnType /\ WireOK(wire[c])
        BY <2>5 DEF Fits
      <4> QED
        BY <1>4, <2>5, <2>7, <3>1, <4>3, <4>4 DEF Client
    <3>2. CASE d # c
      <4>1. conn'[d] = conn[d] /\ stage'[d] = stage[d] /\ wire' = wire
        BY <1>4, <2>7, <3>2
      <4>2. ASSUME stage[d] = "open" PROVE Pair(d)'
        <5>1. PICK x, y : x = conn[d].clientFd /\ y = conn[d].backendFd
          OBVIOUS
        <5>2. x \in Fds \ {f, g} /\ y \in Fds \ {f, g} /\ Pair(d)
          BY <2>1, <2>2, <4>2, <5>1 DEF Client, Pair
        <5>3. /\ connections'[x] = connections[x] /\ connections'[y] = connections[y]
              /\ callbacks'[x] = callbacks[x] /\ callbacks'[y] = callbacks[y]
              /\ interest'[x] = interest[x] /\ interest'[y] = interest[y]
          BY <2>8, <5>2
        <5>4. Now(d)' = Now(d)
          BY <4>1, <5>1, <5>3 DEF Now
        <5> QED
          BY <4>1, <5>1, <5>2, <5>3, <5>4 DEF Pair
      <4> QED
        BY <2>1, <4>1, <4>2 DEF Client
    <3> QED
      BY <3>1, <3>2
  <2>12. \A fd : Unblocked(fd) => Unblocked(fd)'
    <3> SUFFICES ASSUME NEW fd, Unblocked(fd), NEW d \in Clients, stage'[d] = "open"
                 PROVE  /\ fd = conn'[d].clientFd => conn'[d].toBackend = <<>>
                        /\ fd = conn'[d].backendFd => conn'[d].toClient = <<>>
      BY DEF Unblocked
    <3>1. CASE d = c
      BY <2>5, <2>7, <3>1
    <3>2. CASE d # c
      BY <2>7, <3>2 DEF Unblocked
    <3> QED
      BY <3>1, <3>2
  <2>13. Events'
    BY <1>3, <2>12 DEF IInv, Events
  <2>14. Control'
    BY <1>3 DEF IInv, Control
  <2> QED
    BY <2>9, <2>10, <2>11, <2>13, <2>14 DEF IInv
<1>5. CASE /\ stage' = [stage EXCEPT ![c] = "closed"]
           /\ wire' = [wire EXCEPT ![c] = AfterClose(@)]
           /\ UNCHANGED <<files, interest, callbacks, errors, size, connections, conn>>
  <2>1. completions' \in Int /\ files' \in [Fds -> Handles \cup {Nil}]
    BY <1>3, <1>5 DEF IInv, Control, Tables
  <2> QED
    BY <1>3, <1>5, <2>1, TurnedAway
<1> QED
  BY <1>1, <1>2, <1>4, <1>5 DEF OnClientConnect

-----------------------------------------------------------------------------
(* The invariant. *)

LEMMA StepKeeps == IInv /\ [Next]_vars => IInv'
<1> SUFFICES ASSUME IInv, [Next]_vars PROVE IInv'
  OBVIOUS
<1>1. CASE Relay
  BY <1>1, PollKeeps, OnPairEventKeeps, OnErrorKeeps, AcceptFailsKeeps,
     ConnectThrowsKeeps, OnClientConnectKeeps DEF Relay
<1>2. CASE Interrupted
  BY <1>2, InterruptedKeeps
<1>3. ASSUME NEW c \in Clients,
             \/ ClientConnects(c) \/ ClientSendsHello(c) \/ ClientSends(c)
             \/ BackendSends(c) \/ ClientReads(c) \/ BackendReads(c)
             \/ PeerCloses(c) \/ PeerResets(c) \/ ResetAnswersData(c)
      PROVE  IInv'
  BY <1>3, ConnectsKeeps, PeersKeep
<1>4. CASE UNCHANGED vars
  <2>1. /\ UNCHANGED <<files, interest, callbacks, errors, size>>
        /\ UNCHANGED <<batch, completions, pc, event, self>>
        /\ UNCHANGED <<connections, stage, conn, wire>>
    BY <1>4 DEF vars, loopVars
  <2>2. \A fd : Unblocked(fd)' <=> Unblocked(fd)
    BY <2>1 DEF Unblocked
  <2>3. Events' /\ Control'
    BY <2>1, <2>2 DEF IInv, Events, Control
  <2> QED
    BY <2>1, <2>3, LoopKeeps
<1> QED
  BY <1>1, <1>2, <1>3, <1>4 DEF Next, Terminated

LEMMA Invariance == Spec => []IInv
<1> QED
  BY InitIInv, StepKeeps, PTL DEF Spec

-----------------------------------------------------------------------------
(* The theorems. *)

\* Every variable has its type: what is counted and numbered stays in range.
THEOREM TypeCorrect == Spec => []TypeOK
<1>1. IInv => TypeOK
  <2> SUFFICES ASSUME IInv PROVE TypeOK
    OBVIOUS
  <2>1. size \in Nat
    <3>1. size = Cardinality(Loop!Registered)
      BY LoopCardinality DEF IInv, Tables, Loop!SizeCountsRegistrations
    <3> QED
      BY <3>1, RegisteredFinite, FS_CardinalityType
  <2> QED
    BY <2>1 DEF IInv, Tables, Events, Control, TypeOK
<1> QED
  BY <1>1, Invariance, PTL

\* A pair is registered as a whole or not at all (on_client_connect and
\* close_conn), and every table agrees whose a number is.
THEOREM Registration == Spec => []PairsRegisteredTogether
<1>1. IInv => PairsRegisteredTogether
  <2> SUFFICES ASSUME IInv PROVE PairsRegisteredTogether
    OBVIOUS
  <2>1. Loop!TablesAgree /\ Loop!SizeCountsRegistrations
    BY DEF IInv, Tables
  <2>2. ASSUME NEW c \in Clients
        PROVE  {fd \in Fds : connections[fd] = c}
                 = (IF Open(c) THEN {conn[c].clientFd, conn[c].backendFd} ELSE {})
    <3>1. ASSUME NEW fd \in Fds, connections[fd] = c
          PROVE  stage[c] = "open" /\ fd \in {conn[c].clientFd, conn[c].backendFd}
      <4>1. Owner(fd) /\ c # Nil
        BY Constants DEF IInv
      <4> QED
        BY <3>1, <4>1 DEF Owner
    <3>2. stage[c] = "open" =>
            /\ conn[c].clientFd \in Fds /\ conn[c].backendFd \in Fds
            /\ connections[conn[c].clientFd] = c /\ connections[conn[c].backendFd] = c
      BY PairOK DEF Pair
    <3> QED
      BY <3>1, <3>2 DEF Open
  <2>3. ASSUME NEW c \in Clients, Open(c)
        PROVE  /\ callbacks[conn[c].clientFd] = <<c, "client">>
               /\ callbacks[conn[c].backendFd] = <<c, "backend">>
    BY <2>3, PairOK DEF Pair, Open
  <2> QED
    BY <2>1, <2>2, <2>3 DEF PairsRegisteredTogether
<1> QED
  BY <1>1, Invariance, PTL

\* The two masks of a pair are those its backlog asks for, and the backlog
\* is in one direction (write_to_backend, try_write_to_client and flushes);
\* the branch of read_from_backend that defers a close is never taken.
THEOREM Interest == Spec => []InterestFollowsBacklog
<1>1. IInv => InterestFollowsBacklog
  <2> SUFFICES ASSUME IInv PROVE InterestFollowsBacklog
    OBVIOUS
  <2>1. ASSUME NEW c \in Clients, Open(c)
        PROVE  /\ conn[c].toBackend = <<>> \/ conn[c].toClient = <<>>
               /\ ~conn[c].backendEOF
               /\ Now(c) = (IF conn[c].toBackend # <<>> THEN ToBackend
                            ELSE IF conn[c].toClient # <<>> THEN ToClient
                            ELSE Relaying)
    <3>1. Now(c) = MasksOf(conn[c])
      BY <2>1, PairOK DEF Pair, Open
    <3>2. /\ conn[c].toBackend = <<>> \/ conn[c].toClient = <<>>
          /\ ~conn[c].backendEOF
      BY <2>1, PairOK DEF Fits, Open
    <3> QED
      BY <3>1, <3>2 DEF MasksOf
  <2> QED
    BY <2>1 DEF InterestFollowsBacklog
<1> QED
  BY <1>1, Invariance, PTL

\* Nothing the backend sends is lost, repeated or reordered on its way to
\* the client, whatever the sizes of chunks, buffers and writes.
THEOREM ToClientIntact == Spec => []ClientStreamIntact
<1>1. IInv => ClientStreamIntact
  <2> SUFFICES ASSUME IInv PROVE ClientStreamIntact
    OBVIOUS
  <2>1. ASSUME NEW c \in Clients
        PROVE  /\ Arrived(wire[c]) = Count(Len(Arrived(wire[c])))
               /\ Open(c) /\ wire[c].client # "reset" =>
                    (Arrived(wire[c]) \o RestOf(conn[c].toClient, wire[c].pushed))
                      \o wire[c].backendIn = Count(wire[c].unitsSent)
    <3>1. Arrived(wire[c]) = Count(Len(Arrived(wire[c])))
      BY DEF IInv, Client, WireOK
    <3>2. Open(c) => ToClientOK(conn[c], wire[c])
      BY PairOK DEF Open, Fits
    <3> QED
      BY <3>1, <3>2 DEF ToClientOK
  <2> QED
    BY <2>1 DEF ClientStreamIntact, Arrived, Count
<1> QED
  BY <1>1, Invariance, PTL

\* The same for what a client sends, through records, SSL's reading ahead
\* and short sends.
THEOREM ToBackendIntact == Spec => []BackendStreamIntact
<1>1. IInv => BackendStreamIntact
  <2> SUFFICES ASSUME IInv PROVE BackendStreamIntact
    OBVIOUS
  <2>1. ASSUME NEW c \in Clients, Open(c), wire[c].backend # "reset"
        PROVE  (Reached(wire[c]) \o conn[c].toBackend) \o UnitsOf(Unread(wire[c]))
                 = Count(wire[c].recordsSent * RecordUnits)
    BY <2>1, PairOK, UnreadCounted DEF Open
  <2>2. \A c \in Clients : Reached(wire[c]) = Count(Len(Reached(wire[c])))
    BY DEF IInv, Client, WireOK
  <2> QED
    BY <2>1, <2>2 DEF BackendStreamIntact, Reached, Count
<1> QED
  BY <1>1, Invariance, PTL

\* A close on the clean end of the backend's stream truncates nothing, if the
\* client had no data in its socket (read_from_backend, close_conn).
THEOREM EndDelivered == Spec => EndOfBackendDelivered
<1>1. IInv /\ [Next]_vars =>
        [\A c \in Clients :
           /\ Open(c) /\ stage'[c] = "closed"
           /\ pc = "event" /\ self[2] = "backend"
           /\ wire[c].backend = "closed" /\ wire[c].client = "up"
           /\ wire[c].clientIn = <<>>
           => wire'[c].clientGot \o wire'[c].clientOut
                = [i \in 1..wire[c].unitsSent |-> i]]_vars
  <2> SUFFICES ASSUME IInv, [Next]_vars, NEW c \in Clients,
                      stage[c] = "open", stage'[c] = "closed",
                      pc = "event", self[2] = "backend",
                      wire[c].backend = "closed", wire[c].client = "up",
                      wire[c].clientIn = <<>>
               PROVE  Arrived(wire'[c]) = Count(wire[c].unitsSent)
    BY DEF Open, Arrived, Count
  <2>1. stage \in [Clients -> Stages] /\ wire \in [Clients -> WireType]
    BY DEF IInv, Tables
  <2>2. ~UNCHANGED stage
    OBVIOUS
  <2>3. ASSUME NEW d \in Clients, stage[d] # "open",
               \E x : stage' = [stage EXCEPT ![d] = x]
        PROVE  FALSE
    BY <2>1, <2>3
  <2>4. ~Poll /\ ~Interrupted /\ ~AcceptFails /\ ~Killed
    BY <2>2 DEF Poll, Interrupted, AcceptFails, Killed
  <2>5. ~ConnectThrows
    BY <2>3 DEF ConnectThrows
  <2>6. \A d \in Clients : ~OnClientConnect(d)
    BY <2>3 DEF OnClientConnect
  <2>7. \A d \in Clients : ~ClientConnects(d)
    BY <2>3 DEF ClientConnects
  <2>8. \A d \in Clients : \A v : ~Peer(d, v)
    BY <2>2 DEF Peer
  <2>9. OnPairEvent
    <3>1. ~OnError
      BY DEF OnError
    <3>2. ~UNCHANGED vars
      BY <2>2 DEF vars
    <3>3. ASSUME NEW d \in Clients
          PROVE  ~( \/ ClientSendsHello(d) \/ ClientSends(d)
                    \/ BackendSends(d) \/ ClientReads(d) \/ BackendReads(d)
                    \/ PeerCloses(d) \/ PeerResets(d) \/ ResetAnswersData(d))
      BY <2>8 DEF ClientSendsHello, ClientSends, BackendSends, ClientReads, BackendReads,
         PeerCloses, PeerResets, ResetAnswersData, ResetOf
    <3> QED
      BY <2>4, <2>5, <2>6, <2>7, <3>1, <3>2, <3>3 DEF Next, Relay, Terminated
  <2>10. /\ event \in Loop!Event /\ self = callbacks[event.fd]
         /\ Unblocked(event.fd) /\ connections[event.fd] # Nil
    BY <2>9 DEF OnPairEvent, IInv, Control
  <2>11. PICK d \in Clients :
           /\ d = connections[event.fd] /\ stage[d] = "open"
           /\ event.fd = conn[d].backendFd
    <3>1. PICK d \in Clients :
            /\ d = connections[event.fd] /\ stage[d] = "open"
            /\ \/ event.fd = conn[d].clientFd /\ callbacks[event.fd] = <<d, "client">>
               \/ event.fd = conn[d].backendFd /\ callbacks[event.fd] = <<d, "backend">>
      BY <2>10, EventOfPair
    <3>2. callbacks[event.fd] # <<d, "client">>
      BY <2>10
    <3> QED
      BY <3>1, <3>2
  <2>12. PICK k, w : /\ k = conn[d] /\ w = wire[d] /\ Fits(k, w)
                     /\ k.toClient = <<>> /\ Now(d) = MasksOf(k)
    BY <2>10, <2>11, PairOK DEF Pair, Unblocked
  <2>13. PICK o \in OnBackendFdEvent(k, w, MasksOf(k)) :
           \/ o.end = "open"  /\ Keep(d, o.conn, o.wire, o.masks)
           \/ o.end = "close" /\ Close(d, o.wire)
           \/ o.end = "kill"  /\ Killed
    BY <2>9, <2>11, <2>12 DEF OnPairEvent, Handle
  <2>14. o.end = "close" /\ CloseConn(d, o.wire)
    <3>1. ~Keep(d, o.conn, o.wire, o.masks)
      BY <2>2 DEF Keep
    <3> QED
      BY <2>4, <2>13, <3>1 DEF Close
  <2>15. c = d
    BY <2>1, <2>14 DEF CloseConn
  <2>16. o.wire = w /\ w.backendIn = <<>>
    BY <2>12, <2>13, <2>14, <2>15, OnBackendFdEventOK
  <2>17. wire'[c] = AfterClose(w)
    BY <2>1, <2>14, <2>15, <2>16 DEF CloseConn
  <2>18. Arrived(AfterClose(w)) = Arrived(w)
    BY <2>12, <2>15, AfterCloseOK DEF Fits
  <2>19. Arrived(w) = Count(w.unitsSent)
    <3>1. w.pushed = 0
      BY <2>12, WireTyped DEF Fits
    <3>2. RestOf(<<>>, 0) = <<>>
      <4>1. 0 \in 0..Len(<<>>)
        OBVIOUS
      <4> QED
        BY <4>1, EmptyUnits, CutInTwo
    <3>3. (Arrived(w) \o <<>>) \o <<>> = Count(w.unitsSent)
      BY <2>12, <2>15, <2>16, <3>1, <3>2 DEF Fits, ToClientOK
    <3>4. Arrived(w) \in UnitSeqs
      BY <2>12, WireTyped DEF Fits
    <3> QED
      BY <3>3, <3>4, EmptyUnits
  <2> QED
    BY <2>12, <2>15, <2>17, <2>18, <2>19
<1> QED
  BY <1>1, Invariance, PTL DEF Spec, EndOfBackendDelivered

-----------------------------------------------------------------------------
(* The refinement of Pipes. *)

\* The values of the four mapped functions at the ends of one client.
Shown(c, s, k, w) ==
  /\ Sent[<<c, "client">>] = w.unitsSent
  /\ Sent[<<c, "backend">>] = w.recordsSent * RecordUnits
  /\ Got[<<c, "client">>] = w.clientGot
  /\ Got[<<c, "backend">>] = w.backendGot
  /\ Cut[<<c, "client">>] = Gone(s, w.client)
  /\ Cut[<<c, "backend">>] = Gone(s, w.backend)
  /\ InFlight[<<c, "client">>] = ToClientPipe(s, k, w)
  /\ InFlight[<<c, "backend">>] = ToBackendPipe(s, k, w)

LEMMA Values ==
  ASSUME NEW c \in Clients
  PROVE  Shown(c, stage[c], conn[c], wire[c])
<1>1. /\ <<c, "client">> \in Ends /\ <<c, "client">>[1] = c /\ <<c, "client">>[2] = "client"
  BY DEF Ends
<1>2. /\ <<c, "backend">> \in Ends /\ <<c, "backend">>[1] = c
      /\ <<c, "backend">>[2] = "backend"
  BY DEF Ends
<1> QED
  BY <1>1, <1>2 DEF Shown, Sent, Got, Cut, InFlight

LEMMA NewValues ==
  ASSUME NEW c \in Clients, NEW s, NEW k, NEW w,
         s = stage'[c], k = conn'[c], w = wire'[c]
  PROVE  Shown(c, s, k, w)'
<1>1. /\ <<c, "client">> \in Ends /\ <<c, "client">>[1] = c /\ <<c, "client">>[2] = "client"
  BY DEF Ends
<1>2. /\ <<c, "backend">> \in Ends /\ <<c, "backend">>[1] = c
      /\ <<c, "backend">>[2] = "backend"
  BY DEF Ends
<1> QED
  BY <1>1, <1>2 DEF Shown, Sent, Got, Cut, InFlight

\* A step of one client's connection leaves the pipes of the others alone.
Alone(c) ==
  \A d \in Clients : d # c =>
    stage'[d] = stage[d] /\ conn'[d] = conn[d] /\ wire'[d] = wire[d]

Kept(e) ==
  /\ Sent'[e] = Sent[e] /\ Got'[e] = Got[e]
  /\ Cut'[e] = Cut[e] /\ InFlight'[e] = InFlight[e]

LEMMA OthersKept ==
  ASSUME NEW c \in Clients, Alone(c), NEW e \in Ends,
         e # <<c, "client">>, e # <<c, "backend">>
  PROVE  Kept(e)
<1>1. PICK d \in Clients, side \in {"client", "backend"} : e = <<d, side>>
  BY DEF Ends
<1>2. d # c /\ e[1] = d
  BY <1>1
<1>3. stage'[d] = stage[d] /\ conn'[d] = conn[d] /\ wire'[d] = wire[d]
  BY <1>2 DEF Alone
<1> QED
  BY <1>2, <1>3 DEF Kept, Sent, Got, Cut, InFlight

\* A function changed at one place.
LEMMA Changed ==
  ASSUME NEW f, NEW g, f = [e \in Ends |-> f[e]], g = [e \in Ends |-> g[e]],
         NEW e \in Ends, \A x \in Ends : x # e => g[x] = f[x]
  PROVE  g = [f EXCEPT ![e] = g[e]]
OBVIOUS

LEMMA Functions ==
  /\ Sent = [e \in Ends |-> Sent[e]] /\ Sent' = [e \in Ends |-> Sent'[e]]
  /\ Got = [e \in Ends |-> Got[e]] /\ Got' = [e \in Ends |-> Got'[e]]
  /\ Cut = [e \in Ends |-> Cut[e]] /\ Cut' = [e \in Ends |-> Cut'[e]]
  /\ InFlight = [e \in Ends |-> InFlight[e]] /\ InFlight' = [e \in Ends |-> InFlight'[e]]
<1>1. Sent = [e \in Ends |-> Sent[e]] /\ Sent' = [e \in Ends |-> Sent'[e]]
  BY DEF Sent
<1>2. Got = [e \in Ends |-> Got[e]] /\ Got' = [e \in Ends |-> Got'[e]]
  BY DEF Got
<1>3. Cut = [e \in Ends |-> Cut[e]] /\ Cut' = [e \in Ends |-> Cut'[e]]
  BY DEF Cut
<1>4. InFlight = [e \in Ends |-> InFlight[e]] /\ InFlight' = [e \in Ends |-> InFlight'[e]]
  BY DEF InFlight
<1> QED
  BY <1>1, <1>2, <1>3, <1>4

LEMMA Stutter ==
  ASSUME \A e \in Ends : Kept(e)
  PROVE  UNCHANGED P!vars
<1>1. \A e \in Ends : /\ Sent'[e] = Sent[e] /\ Got'[e] = Got[e]
                      /\ Cut'[e] = Cut[e] /\ InFlight'[e] = InFlight[e]
  BY DEF Kept
<1>2. Sent' = Sent /\ Got' = Got /\ Cut' = Cut /\ InFlight' = InFlight
  BY <1>1, Functions, Zenon
<1> QED
  BY <1>2 DEF P!vars

\* What is known of a client's connection before and after a step.
LEMMA Known ==
  ASSUME IInv, IInv', NEW c \in Clients
  PROVE  /\ WireOK(wire[c]) /\ (stage[c] # "closed" => Fits(conn[c], wire[c]))
         /\ WireOK(wire'[c]) /\ (stage'[c] # "closed" => Fits(conn'[c], wire'[c]))
         /\ wire \in [Clients -> WireType] /\ stage \in [Clients -> Stages]
         /\ conn \in [Clients -> ConnType]
<1>1. Client(c) /\ Client(c)' /\ Tables
  BY DEF IInv
<1> QED
  BY <1>1 DEF Client, Tables

\* A step within the relay is none of the pipes'.
LEMMA UnseenStep ==
  ASSUME IInv, IInv', NEW c \in Clients, Alone(c),
         stage'[c] = "closed" <=> stage[c] = "closed",
         Untouched(wire[c], wire'[c]),
         stage[c] = "closed" => SameOut(wire[c], wire'[c])
  PROVE  UNCHANGED P!vars
<1>1. PICK s, t, k, j, w, v : /\ s = stage[c] /\ t = stage'[c] /\ k = conn[c]
                              /\ j = conn'[c] /\ w = wire[c] /\ v = wire'[c]
  OBVIOUS
<1>2. /\ WireOK(w) /\ (s # "closed" => Fits(k, w))
      /\ WireOK(v) /\ (t # "closed" => Fits(j, v))
  BY <1>1, Known
<1>3. /\ ToClientPipe(t, j, v) = ToClientPipe(s, k, w)
      /\ ToBackendPipe(t, j, v) = ToBackendPipe(s, k, w)
      /\ Gone(t, v.client) <=> Gone(s, w.client)
      /\ Gone(t, v.backend) <=> Gone(s, w.backend)
  <2>1. /\ t = "closed" <=> s = "closed"
        /\ Untouched(w, v) /\ (s = "closed" => SameOut(w, v))
    BY <1>1
  <2> QED
    BY <1>2, <2>1, UntouchedPipes
<1>4. /\ v.unitsSent = w.unitsSent /\ v.recordsSent = w.recordsSent
      /\ v.clientGot = w.clientGot /\ v.backendGot = w.backendGot
  BY <1>1 DEF Untouched
<1>5. Gone(t, v.client) = Gone(s, w.client) /\ Gone(t, v.backend) = Gone(s, w.backend)
  BY <1>3 DEF Gone
<1>6. Kept(<<c, "client">>) /\ Kept(<<c, "backend">>)
  <2>1. Shown(c, s, k, w) /\ Shown(c, t, j, v)'
    BY <1>1, Values, NewValues
  <2> QED
    BY <1>3, <1>4, <1>5, <2>1 DEF Kept, Shown
<1> QED
  BY <1>6, OthersKept, Stutter

LEMMA NothingMoves ==
  ASSUME UNCHANGED <<stage, conn, wire>>
  PROVE  UNCHANGED P!vars
BY DEF P!vars, Sent, Got, Cut, InFlight

\* The steps of the pipes, from the values at the ends they change.
LEMMA WriteStep ==
  ASSUME NEW e \in Ends, \A x \in Ends : x # e => Kept(x),
         NEW n \in {1, RecordUnits}, Sent'[e] = Sent[e] + n,
         Got'[e] = Got[e], Cut'[e] = Cut[e],
         InFlight'[e] = IF Cut[e] THEN InFlight[e] ELSE InFlight[e] \o P!Run(Sent[e], n)
  PROVE  P!Next
<1>1. \A x \in Ends : x # e => /\ Sent'[x] = Sent[x] /\ InFlight'[x] = InFlight[x]
                               /\ Got'[x] = Got[x] /\ Cut'[x] = Cut[x]
  BY DEF Kept
<1>2. Got' = Got /\ Cut' = Cut
  <2>1. \A x \in Ends : Got'[x] = Got[x] /\ Cut'[x] = Cut[x]
    BY <1>1
  <2> QED
    BY <2>1, Functions, Zenon
<1>3. Sent' = [Sent EXCEPT ![e] = Sent'[e]] /\ InFlight' = [InFlight EXCEPT ![e] = InFlight'[e]]
  <2>1. \A x \in Ends : x # e => Sent'[x] = Sent[x]
    BY <1>1
  <2>2. \A x \in Ends : x # e => InFlight'[x] = InFlight[x]
    BY <1>1
  <2> QED
    BY <2>1, <2>2, Functions, Changed
<1>4. Sent' = [Sent EXCEPT ![e] = @ + n]
  BY <1>3, Zenon
<1>5. InFlight' = IF Cut[e] THEN InFlight
                  ELSE [InFlight EXCEPT ![e] = @ \o P!Run(Sent[e], n)]
  <2>1. CASE Cut[e]
    <3>1. \A x \in Ends : InFlight'[x] = InFlight[x]
      BY <1>1, <2>1
    <3>2. InFlight' = InFlight
      BY <3>1, Functions, Zenon
    <3> QED
      BY <2>1, <3>2
  <2>2. CASE ~Cut[e]
    <3>1. InFlight'[e] = InFlight[e] \o P!Run(Sent[e], n)
      BY <2>2
    <3> QED
      BY <1>3, <2>2, <3>1, Zenon
  <2> QED
    BY <2>1, <2>2
<1>6. P!Write(e)
  BY <1>2, <1>4, <1>5 DEF P!Write
<1> QED
  BY <1>6 DEF P!Next, P!Ends, Ends

LEMMA DeliverStep ==
  ASSUME NEW e \in Ends, \A x \in Ends : x # e => Kept(x),
         InFlight[e] # <<>>, Got'[e] = Append(Got[e], Head(InFlight[e])),
         InFlight'[e] = Tail(InFlight[e]), Sent'[e] = Sent[e], Cut'[e] = Cut[e]
  PROVE  P!Next
<1>1. \A x \in Ends : x # e => /\ Sent'[x] = Sent[x] /\ InFlight'[x] = InFlight[x]
                               /\ Got'[x] = Got[x] /\ Cut'[x] = Cut[x]
  BY DEF Kept
<1>2. Sent' = Sent /\ Cut' = Cut
  <2>1. \A x \in Ends : Sent'[x] = Sent[x] /\ Cut'[x] = Cut[x]
    BY <1>1
  <2> QED
    BY <2>1, Functions, Zenon
<1>3. Got' = [Got EXCEPT ![e] = Got'[e]] /\ InFlight' = [InFlight EXCEPT ![e] = InFlight'[e]]
  <2>1. \A x \in Ends : x # e => Got'[x] = Got[x]
    BY <1>1
  <2>2. \A x \in Ends : x # e => InFlight'[x] = InFlight[x]
    BY <1>1
  <2> QED
    BY <2>1, <2>2, Functions, Changed
<1>4. /\ Got' = [Got EXCEPT ![e] = Append(@, Head(InFlight[e]))]
      /\ InFlight' = [InFlight EXCEPT ![e] = Tail(@)]
  BY <1>3, Zenon
<1>5. P!Deliver(e)
  BY <1>2, <1>4 DEF P!Deliver
<1> QED
  BY <1>5 DEF P!Next, P!Ends, Ends

LEMMA ResetStep ==
  ASSUME NEW e \in Ends, \A x \in Ends : x # e => Kept(x),
         Cut'[e] = TRUE, InFlight'[e] = <<>>, Sent'[e] = Sent[e], Got'[e] = Got[e]
  PROVE  P!Next
<1>1. \A x \in Ends : x # e => /\ Sent'[x] = Sent[x] /\ InFlight'[x] = InFlight[x]
                               /\ Got'[x] = Got[x] /\ Cut'[x] = Cut[x]
  BY DEF Kept
<1>2. Sent' = Sent /\ Got' = Got
  <2>1. \A x \in Ends : Sent'[x] = Sent[x] /\ Got'[x] = Got[x]
    BY <1>1
  <2> QED
    BY <2>1, Functions, Zenon
<1>3. Cut' = [Cut EXCEPT ![e] = Cut'[e]] /\ InFlight' = [InFlight EXCEPT ![e] = InFlight'[e]]
  <2>1. \A x \in Ends : x # e => Cut'[x] = Cut[x]
    BY <1>1
  <2>2. \A x \in Ends : x # e => InFlight'[x] = InFlight[x]
    BY <1>1
  <2> QED
    BY <2>1, <2>2, Functions, Changed
<1>4. Cut' = [Cut EXCEPT ![e] = TRUE] /\ InFlight' = [InFlight EXCEPT ![e] = <<>>]
  BY <1>3
<1>5. P!Reset(e)
  BY <1>2, <1>4 DEF P!Reset
<1> QED
  BY <1>5 DEF P!Next, P!Ends, Ends

LEMMA CloseStep ==
  ASSUME NEW c \in Clients, NEW a, a = <<c, "client">>, NEW b, b = <<c, "backend">>,
         \A x \in Ends : x # a /\ x # b => Kept(x),
         Cut'[a] = TRUE, Cut'[b] = TRUE,
         StartOf(InFlight[a], InFlight'[a]), StartOf(InFlight[b], InFlight'[b]),
         Sent'[a] = Sent[a], Sent'[b] = Sent[b], Got'[a] = Got[a], Got'[b] = Got[b]
  PROVE  P!Next
<1>0. a \in Ends /\ b \in Ends /\ a # b
  <2>1. a[2] = "client" /\ b[2] = "backend"
    OBVIOUS
  <2> QED
    BY <2>1 DEF Ends
<1>1. \A x \in Ends : x # a /\ x # b => /\ Sent'[x] = Sent[x] /\ InFlight'[x] = InFlight[x]
                                        /\ Got'[x] = Got[x] /\ Cut'[x] = Cut[x]
  BY DEF Kept
<1>2. Sent' = Sent /\ Got' = Got
  <2>1. \A x \in Ends : Sent'[x] = Sent[x] /\ Got'[x] = Got[x]
    BY <1>1
  <2> QED
    BY <2>1, Functions, Zenon
<1>3. Cut' = [Cut EXCEPT ![a] = TRUE, ![b] = TRUE]
  <2>1. \A x \in Ends : Cut'[x] = [Cut EXCEPT ![a] = TRUE, ![b] = TRUE][x]
    BY <1>0, <1>1, Functions
  <2> QED
    BY <2>1, Functions
<1>4. PICK m \in 0..Len(InFlight[a]), n \in 0..Len(InFlight[b]) :
        InFlight'[a] = SubSeq(InFlight[a], 1, m) /\ InFlight'[b] = SubSeq(InFlight[b], 1, n)
  BY DEF StartOf
<1>5. InFlight' = [InFlight EXCEPT ![a] = SubSeq(@, 1, m), ![b] = SubSeq(@, 1, n)]
  <2>1. PICK u, v : u = SubSeq(InFlight[a], 1, m) /\ v = SubSeq(InFlight[b], 1, n)
    OBVIOUS
  <2>2. \A x \in Ends : InFlight'[x] = [InFlight EXCEPT ![a] = u, ![b] = v][x]
    BY <1>0, <1>1, <1>4, <2>1, Functions
  <2>3. InFlight' = [InFlight EXCEPT ![a] = u, ![b] = v]
    BY <2>2, Functions
  <2>4. [InFlight EXCEPT ![a] = SubSeq(@, 1, m), ![b] = SubSeq(@, 1, n)]
          = [InFlight EXCEPT ![a] = u, ![b] = v]
    BY <1>0, <2>1
  <2> QED
    BY <2>3, <2>4
<1>6. P!Close(c)
  BY <1>2, <1>3, <1>4, <1>5 DEF P!Close
<1> QED
  BY <1>6 DEF P!Next

\* The steps of the peers.
LEMMA PeerMoves ==
  ASSUME IInv, NEW c \in Clients, NEW v, Peer(c, v)
  PROVE  /\ Alone(c) /\ wire'[c] = v
         /\ stage'[c] = stage[c] /\ conn'[c] = conn[c]
BY DEF IInv, Tables, Peer, Alone

LEMMA HelloIsUnseen ==
  ASSUME IInv, IInv', NEW c \in Clients, ClientSendsHello(c)
  PROVE  UNCHANGED P!vars
<1>1. PICK v : v = [wire[c] EXCEPT !.helloSent = TRUE, !.clientIn = Append(@, Hello)]
  OBVIOUS
<1>2. Peer(c, v)
  BY <1>1 DEF ClientSendsHello
<1>3. Untouched(wire[c], v) /\ SameOut(wire[c], v)
  BY <1>1, Known DEF WireType, Untouched, SameOut
<1> QED
  BY <1>2, <1>3, PeerMoves, UnseenStep

\* An end of file is noticed by the relay, not by the pipes.
LEMMA PeerClosesIsUnseen ==
  ASSUME IInv, IInv', NEW c \in Clients, PeerCloses(c)
  PROVE  UNCHANGED P!vars
<1>1. PICK v : /\ Peer(c, v)
               /\ \/ wire[c].client = "up" /\ v = [wire[c] EXCEPT !.client = "closed"]
                  \/ wire[c].backend = "up" /\ v = [wire[c] EXCEPT !.backend = "closed"]
  BY DEF PeerCloses
<1>2. Untouched(wire[c], v) /\ SameOut(wire[c], v)
  BY <1>1, Known DEF WireType, Untouched, SameOut
<1> QED
  BY <1>1, <1>2, PeerMoves, UnseenStep

LEMMA ClientReadsRefines ==
  ASSUME IInv, NEW c \in Clients, ClientReads(c)
  PROVE  P!Next
<1>1. PICK s, k, w : s = stage[c] /\ k = conn[c] /\ w = wire[c]
  OBVIOUS
<1>2. /\ WireOK(w) /\ (s # "closed" => Fits(k, w)) /\ w \in WireType
      /\ w.client = "up" /\ w.clientOut # <<>>
  <2>1. Client(c)
    BY DEF IInv
  <2> QED
    BY <1>1, <2>1 DEF Client, ClientReads, WireOK
<1>3. PICK v : v = [w EXCEPT !.clientGot = Append(@, Head(w.clientOut)),
                             !.clientOut = Tail(@)]
  OBVIOUS
<1>4. Peer(c, v)
  BY <1>1, <1>3 DEF ClientReads
<1>5. /\ ToClientPipe(s, k, w) # <<>>
      /\ v.clientGot = Append(w.clientGot, Head(ToClientPipe(s, k, w)))
      /\ ToClientPipe(s, k, v) = Tail(ToClientPipe(s, k, w))
      /\ ToBackendPipe(s, k, v) = ToBackendPipe(s, k, w)
  <2>1. w.client # "reset"
    BY <1>2
  <2>2. ClientTook(w, v)
    BY <1>2, <1>3 DEF WireType, ClientTook
  <2> QED
    BY <1>2, <2>1, <2>2, ClientTakes
<1>6. /\ v.unitsSent = w.unitsSent /\ v.recordsSent = w.recordsSent
      /\ v.client = w.client /\ v.backend = w.backend /\ v.backendGot = w.backendGot
  BY <1>2, <1>3 DEF WireType
<1>7. Alone(c) /\ wire'[c] = v /\ stage'[c] = s /\ conn'[c] = k
  BY <1>1, <1>4, PeerMoves
<1>12. Shown(c, s, k, w) /\ Shown(c, s, k, v)'
  BY <1>1, <1>7, Values, NewValues
<1>8. Kept(<<c, "backend">>)
  BY <1>5, <1>6, <1>12 DEF Shown, Kept
<1>9. PICK e \in Ends : e = <<c, "client">>
  BY DEF Ends
<1>10. /\ InFlight[e] # <<>> /\ Got'[e] = Append(Got[e], Head(InFlight[e]))
       /\ InFlight'[e] = Tail(InFlight[e]) /\ Sent'[e] = Sent[e] /\ Cut'[e] = Cut[e]
  BY <1>5, <1>6, <1>9, <1>12 DEF Shown
<1>11. \A x \in Ends : x # e => Kept(x)
  BY <1>7, <1>8, <1>9, OthersKept
<1> QED
  BY <1>10, <1>11, DeliverStep

LEMMA BackendReadsRefines ==
  ASSUME IInv, NEW c \in Clients, BackendReads(c)
  PROVE  P!Next
<1>1. PICK s, k, w : s = stage[c] /\ k = conn[c] /\ w = wire[c]
  OBVIOUS
<1>2. /\ WireOK(w) /\ (s # "closed" => Fits(k, w)) /\ w \in WireType
      /\ w.backend = "up" /\ w.backendOut # <<>>
  <2>1. Client(c)
    BY DEF IInv
  <2> QED
    BY <1>1, <2>1 DEF Client, BackendReads, WireOK
<1>3. PICK v : v = [w EXCEPT !.backendGot = Append(@, Head(w.backendOut)),
                             !.backendOut = Tail(@)]
  OBVIOUS
<1>4. Peer(c, v)
  BY <1>1, <1>3 DEF BackendReads
<1>5. /\ ToBackendPipe(s, k, w) # <<>>
      /\ v.backendGot = Append(w.backendGot, Head(ToBackendPipe(s, k, w)))
      /\ ToBackendPipe(s, k, v) = Tail(ToBackendPipe(s, k, w))
      /\ ToClientPipe(s, k, v) = ToClientPipe(s, k, w)
  <2>1. w.backend # "reset"
    BY <1>2
  <2>2. BackendTook(w, v)
    BY <1>2, <1>3 DEF WireType, BackendTook
  <2> QED
    BY <1>2, <2>1, <2>2, BackendTakes
<1>6. /\ v.unitsSent = w.unitsSent /\ v.recordsSent = w.recordsSent
      /\ v.client = w.client /\ v.backend = w.backend /\ v.clientGot = w.clientGot
  BY <1>2, <1>3 DEF WireType
<1>7. Alone(c) /\ wire'[c] = v /\ stage'[c] = s /\ conn'[c] = k
  BY <1>1, <1>4, PeerMoves
<1>12. Shown(c, s, k, w) /\ Shown(c, s, k, v)'
  BY <1>1, <1>7, Values, NewValues
<1>8. Kept(<<c, "client">>)
  BY <1>5, <1>6, <1>12 DEF Shown, Kept
<1>9. PICK e \in Ends : e = <<c, "backend">>
  BY DEF Ends
<1>10. /\ InFlight[e] # <<>> /\ Got'[e] = Append(Got[e], Head(InFlight[e]))
       /\ InFlight'[e] = Tail(InFlight[e]) /\ Sent'[e] = Sent[e] /\ Cut'[e] = Cut[e]
  BY <1>5, <1>6, <1>9, <1>12 DEF Shown
<1>11. \A x \in Ends : x # e => Kept(x)
  BY <1>7, <1>8, <1>9, OthersKept
<1> QED
  BY <1>10, <1>11, DeliverStep

LEMMA ResetRefines ==
  ASSUME IInv, NEW c \in Clients, stage[c] # "closed",
         ResetOf(c, "client") \/ ResetOf(c, "backend")
  PROVE  P!Next
<1>1. PICK s, k, w : s = stage[c] /\ k = conn[c] /\ w = wire[c] /\ w \in WireType
  BY DEF IInv, Tables
<1>2. CASE ResetOf(c, "client")
  <2>1. PICK v : v = [w EXCEPT !.client = "reset", !.clientOut = <<>>]
    OBVIOUS
  <2>2. Peer(c, v)
    BY <1>1, <1>2, <2>1 DEF ResetOf
  <2>3. Alone(c) /\ wire'[c] = v /\ stage'[c] = s /\ conn'[c] = k
    BY <1>1, <2>2, PeerMoves
  <2>4. ToClientPipe(s, k, v) = <<>> /\ ToBackendPipe(s, k, v) = ToBackendPipe(s, k, w)
    <3>1. /\ v.client = "reset" /\ v.clientOut = <<>>
          /\ v.backend = w.backend /\ v.backendOut = w.backendOut
          /\ v.shaken = w.shaken /\ v.ssl = w.ssl /\ v.clientIn = w.clientIn
      BY <1>1, <2>1 DEF WireType
    <3> QED
      BY <3>1, ClientResetEmpties
  <2>5. /\ v.unitsSent = w.unitsSent /\ v.recordsSent = w.recordsSent
        /\ v.client = "reset" /\ v.backend = w.backend
        /\ v.clientGot = w.clientGot /\ v.backendGot = w.backendGot
    BY <1>1, <2>1 DEF WireType
  <2>11. Shown(c, s, k, w) /\ Shown(c, s, k, v)'
    BY <1>1, <2>3, Values, NewValues
  <2>6. Kept(<<c, "backend">>)
    BY <2>4, <2>5, <2>11 DEF Shown, Kept
  <2>7. PICK e \in Ends : e = <<c, "client">>
    BY DEF Ends
  <2>8. Gone(s, "reset") = TRUE
    BY DEF Gone
  <2>9. /\ Cut'[e] = TRUE /\ InFlight'[e] = <<>> /\ Sent'[e] = Sent[e] /\ Got'[e] = Got[e]
    BY <2>4, <2>5, <2>7, <2>8, <2>11 DEF Shown
  <2>10. \A x \in Ends : x # e => Kept(x)
    BY <2>3, <2>6, <2>7, OthersKept
  <2> QED
    BY <2>9, <2>10, ResetStep
<1>3. CASE ResetOf(c, "backend")
  <2>1. PICK v : v = [w EXCEPT !.backend = "reset", !.backendOut = <<>>]
    OBVIOUS
  <2>2. Peer(c, v)
    BY <1>1, <1>3, <2>1 DEF ResetOf
  <2>3. Alone(c) /\ wire'[c] = v /\ stage'[c] = s /\ conn'[c] = k
    BY <1>1, <2>2, PeerMoves
  <2>4. ToBackendPipe(s, k, v) = <<>> /\ ToClientPipe(s, k, v) = ToClientPipe(s, k, w)
    <3>1. /\ v.backend = "reset" /\ v.backendOut = <<>>
          /\ v.client = w.client /\ v.clientOut = w.clientOut
          /\ v.pushed = w.pushed /\ v.backendIn = w.backendIn
      BY <1>1, <2>1 DEF WireType
    <3> QED
      BY <3>1, BackendResetEmpties
  <2>5. /\ v.unitsSent = w.unitsSent /\ v.recordsSent = w.recordsSent
        /\ v.client = w.client /\ v.backend = "reset"
        /\ v.clientGot = w.clientGot /\ v.backendGot = w.backendGot
    BY <1>1, <2>1 DEF WireType
  <2>11. Shown(c, s, k, w) /\ Shown(c, s, k, v)'
    BY <1>1, <2>3, Values, NewValues
  <2>6. Kept(<<c, "client">>)
    BY <2>4, <2>5, <2>11 DEF Shown, Kept
  <2>7. PICK e \in Ends : e = <<c, "backend">>
    BY DEF Ends
  <2>8. Gone(s, "reset") = TRUE
    BY DEF Gone
  <2>9. /\ Cut'[e] = TRUE /\ InFlight'[e] = <<>> /\ Sent'[e] = Sent[e] /\ Got'[e] = Got[e]
    BY <2>4, <2>5, <2>7, <2>8, <2>11 DEF Shown
  <2>10. \A x \in Ends : x # e => Kept(x)
    BY <2>3, <2>6, <2>7, OthersKept
  <2> QED
    BY <2>9, <2>10, ResetStep
<1> QED
  BY <1>2, <1>3

\* What the backend sends, it writes to the client's pipe.
LEMMA BackendSendsRefines ==
  ASSUME IInv, IInv', NEW c \in Clients, BackendSends(c)
  PROVE  P!Next
<1>1. PICK s, k, w, v : /\ s = stage[c] /\ k = conn[c] /\ w = wire[c]
                        /\ v = [w EXCEPT !.unitsSent = @ + 1,
                                         !.backendIn = Append(@, w.unitsSent + 1)]
  OBVIOUS
<1>2. Peer(c, v)
  BY <1>1 DEF BackendSends
<1>3. Alone(c) /\ wire'[c] = v /\ stage'[c] = s /\ conn'[c] = k
  BY <1>1, <1>2, PeerMoves
<1>4. /\ WireOK(w) /\ (s # "closed" => Fits(k, w)) /\ w \in WireType
      /\ WireOK(v) /\ (s # "closed" => Fits(k, v))
  BY <1>1, <1>3, Known DEF WireOK
<1>5. /\ v.unitsSent = w.unitsSent + 1 /\ v.recordsSent = w.recordsSent
      /\ v.client = w.client /\ v.backend = w.backend
      /\ v.clientGot = w.clientGot /\ v.backendGot = w.backendGot
      /\ v.clientOut = w.clientOut /\ v.backendOut = w.backendOut
      /\ v.shaken = w.shaken /\ v.ssl = w.ssl /\ v.clientIn = w.clientIn
  BY <1>1, <1>4 DEF WireType
<1>6. ToBackendPipe(s, k, v) = ToBackendPipe(s, k, w)
  BY <1>5 DEF ToBackendPipe, Unread
<1>7. ToClientPipe(s, k, v)
        = (IF Gone(s, w.client) THEN ToClientPipe(s, k, w)
           ELSE ToClientPipe(s, k, w) \o P!Run(w.unitsSent, 1))
  <2>1. 1 \in Nat /\ MoreToClient(s, w, s, v, 1)
    BY <1>5 DEF MoreToClient
  <2> QED
    BY <1>4, <2>1, ToClientGrows
<1>13. Shown(c, s, k, w) /\ Shown(c, s, k, v)'
  BY <1>1, <1>3, Values, NewValues
<1>8. Kept(<<c, "backend">>)
  BY <1>5, <1>6, <1>13 DEF Shown, Kept
<1>9. PICK e \in Ends : e = <<c, "client">>
  BY DEF Ends
<1>10. /\ Sent'[e] = Sent[e] + 1 /\ Got'[e] = Got[e] /\ Cut'[e] = Cut[e]
       /\ InFlight'[e] = IF Cut[e] THEN InFlight[e] ELSE InFlight[e] \o P!Run(Sent[e], 1)
  BY <1>5, <1>7, <1>9, <1>13 DEF Shown
<1>11. \A x \in Ends : x # e => Kept(x)
  BY <1>3, <1>8, <1>9, OthersKept
<1>12. PICK n \in {1, RecordUnits} : n = 1
  OBVIOUS
<1> QED
  BY <1>10, <1>11, <1>12, WriteStep

\* A record is written to the backend's pipe as a whole.
LEMMA ClientSendsRefines ==
  ASSUME IInv, IInv', NEW c \in Clients, ClientSends(c)
  PROVE  P!Next
<1>1. PICK s, k, w, v : /\ s = stage[c] /\ k = conn[c] /\ w = wire[c]
                        /\ v = [w EXCEPT !.recordsSent = @ + 1,
                                         !.clientIn = Append(@, w.recordsSent + 1)]
  OBVIOUS
<1>2. Peer(c, v)
  BY <1>1 DEF ClientSends
<1>3. Alone(c) /\ wire'[c] = v /\ stage'[c] = s /\ conn'[c] = k
  BY <1>1, <1>2, PeerMoves
<1>4. /\ WireOK(w) /\ (s # "closed" => Fits(k, w)) /\ w \in WireType
      /\ WireOK(v) /\ (s # "closed" => Fits(k, v))
  BY <1>1, <1>3, Known DEF WireOK
<1>5. /\ v.unitsSent = w.unitsSent /\ v.recordsSent = w.recordsSent + 1
      /\ v.client = w.client /\ v.backend = w.backend
      /\ v.clientGot = w.clientGot /\ v.backendGot = w.backendGot
      /\ v.clientOut = w.clientOut /\ v.backendOut = w.backendOut
      /\ v.pushed = w.pushed /\ v.backendIn = w.backendIn
  BY <1>1, <1>4 DEF WireType
<1>6. ToClientPipe(s, k, v) = ToClientPipe(s, k, w)
  BY <1>5 DEF ToClientPipe
<1>7. v.recordsSent * RecordUnits = w.recordsSent * RecordUnits + RecordUnits
  <2>1. w.recordsSent \in Nat /\ RecordUnits \in Nat
    BY <1>4, WireTyped, Sizes
  <2>2. (w.recordsSent + 1) * RecordUnits = w.recordsSent * RecordUnits + RecordUnits
    BY <2>1
  <2> QED
    BY <1>5, <2>2
<1>8. ToBackendPipe(s, k, v)
        = (IF Gone(s, w.backend) THEN ToBackendPipe(s, k, w)
           ELSE ToBackendPipe(s, k, w) \o P!Run(w.recordsSent * RecordUnits, RecordUnits))
  <2>1. RecordUnits \in Nat /\ MoreToBackend(s, w, s, v, RecordUnits)
    BY <1>5, <1>7, Sizes DEF MoreToBackend
  <2> QED
    BY <1>4, <2>1, ToBackendGrows
<1>14. Shown(c, s, k, w) /\ Shown(c, s, k, v)'
  BY <1>1, <1>3, Values, NewValues
<1>9. Kept(<<c, "client">>)
  BY <1>5, <1>6, <1>14 DEF Shown, Kept
<1>10. PICK e \in Ends : e = <<c, "backend">>
  BY DEF Ends
<1>11. /\ Sent'[e] = Sent[e] + RecordUnits /\ Got'[e] = Got[e] /\ Cut'[e] = Cut[e]
       /\ InFlight'[e] = IF Cut[e] THEN InFlight[e]
                         ELSE InFlight[e] \o P!Run(Sent[e], RecordUnits)
  BY <1>5, <1>7, <1>8, <1>10, <1>14 DEF Shown
<1>12. \A x \in Ends : x # e => Kept(x)
  BY <1>3, <1>9, <1>10, OthersKept
<1>13. PICK n \in {1, RecordUnits} : n = RecordUnits
  OBVIOUS
<1> QED
  BY <1>11, <1>12, <1>13, WriteStep

\* A pair that ends, however it does, cuts its pipes.
CutsOff(w, v) ==
  /\ v.clientOut \in {w.clientOut, <<>>} /\ v.backendOut \in {w.backendOut, <<>>}
  /\ v.clientGot = w.clientGot /\ v.backendGot = w.backendGot
  /\ v.unitsSent = w.unitsSent /\ v.recordsSent = w.recordsSent

LEMMA EndRefines ==
  ASSUME IInv, NEW c \in Clients, Alone(c), stage'[c] = "closed",
         CutsOff(wire[c], wire'[c])
  PROVE  P!Next
<1>1. PICK s, k, j, w, v : /\ s = stage[c] /\ k = conn[c] /\ w = wire[c]
                           /\ j = conn'[c] /\ v = wire'[c]
  OBVIOUS
<1>2. WireOK(w) /\ (s # "closed" => Fits(k, w))
  <2>1. Client(c)
    BY DEF IInv
  <2> QED
    BY <1>1, <2>1 DEF Client
<1>3. /\ v.clientOut \in {w.clientOut, <<>>} /\ v.backendOut \in {w.backendOut, <<>>}
      /\ v.clientGot = w.clientGot /\ v.backendGot = w.backendGot
      /\ v.unitsSent = w.unitsSent /\ v.recordsSent = w.recordsSent
  BY <1>1 DEF CutsOff
<1>4. /\ StartOf(ToClientPipe(s, k, w), ToClientPipe("closed", j, v))
      /\ StartOf(ToBackendPipe(s, k, w), ToBackendPipe("closed", j, v))
  BY <1>2, <1>3, CloseCuts
<1>5. Shown(c, s, k, w) /\ Shown(c, "closed", j, v)'
  <2>1. Shown(c, s, k, w)
    BY <1>1, Values
  <2>2. PICK t : t = "closed" /\ t = stage'[c]
    OBVIOUS
  <2>3. Shown(c, t, j, v)'
    BY <1>1, <2>2, NewValues
  <2> QED
    BY <2>1, <2>2, <2>3
<1>6. Gone("closed", v.client) = TRUE /\ Gone("closed", v.backend) = TRUE
  BY DEF Gone
<1>7. PICK a, b : a = <<c, "client">> /\ b = <<c, "backend">>
  OBVIOUS
<1>8. \A x \in Ends : x # a /\ x # b => Kept(x)
  BY <1>7, OthersKept
<1>9. /\ Cut'[a] = TRUE /\ Cut'[b] = TRUE
      /\ Sent'[a] = Sent[a] /\ Sent'[b] = Sent[b]
      /\ Got'[a] = Got[a] /\ Got'[b] = Got[b]
      /\ StartOf(InFlight[a], InFlight'[a]) /\ StartOf(InFlight[b], InFlight'[b])
  BY <1>3, <1>4, <1>5, <1>6, <1>7 DEF Shown
<1> QED
  BY <1>7, <1>8, <1>9, CloseStep

LEMMA CloseRefines ==
  ASSUME IInv, NEW c \in Clients, NEW v, v \in WireType,
         Untouched(wire[c], v), SameOut(wire[c], v), Close(c, v)
  PROVE  P!Next \/ UNCHANGED P!vars
<1>1. CASE Killed
  BY <1>1, NothingMoves DEF Killed
<1>2. CASE CloseConn(c, v)
  <2>1. /\ stage' = [stage EXCEPT ![c] = "closed"]
        /\ conn' = [conn EXCEPT ![c] = NoConn]
        /\ wire' = [wire EXCEPT ![c] = AfterClose(v)]
    BY <1>2 DEF CloseConn
  <2>2. Alone(c) /\ stage'[c] = "closed" /\ wire'[c] = AfterClose(v)
    BY <2>1 DEF IInv, Tables, Alone
  <2>3. CutsOff(wire[c], AfterClose(v))
    BY AfterCloseOut DEF CutsOff, Untouched, SameOut
  <2> QED
    BY <2>2, <2>3, EndRefines
<1> QED
  BY <1>1, <1>2 DEF Close

\* Whatever a callback of a pair does, the pipes keep what is in them.
LEMMA OnPairEventRefines ==
  ASSUME IInv, IInv', OnPairEvent
  PROVE  P!Next \/ UNCHANGED P!vars
<1>1. connections[event.fd] # Nil /\ event \in Loop!Event
  BY DEF OnPairEvent, IInv, Control
<1>2. PICK c \in Clients : c = connections[event.fd] /\ stage[c] = "open"
  BY <1>1, EventOfPair
<1>3. PICK o \in IF self[2] = "client"
                   THEN OnClientFdEvent(conn[c], wire[c], Now(c))
                   ELSE OnBackendFdEvent(conn[c], wire[c], Now(c)) :
        \/ o.end = "open"  /\ Keep(c, o.conn, o.wire, o.masks)
        \/ o.end = "close" /\ Close(c, o.wire)
        \/ o.end = "kill"  /\ Killed
  BY <1>2 DEF OnPairEvent, Handle
<1>4. Fits(conn[c], wire[c]) /\ Now(c) = MasksOf(conn[c])
  BY <1>2, PairOK DEF Pair
<1>5. Quiet(wire[c], o)
  BY <1>3, <1>4, CallbacksQuiet
<1>6. CASE o.end = "open" /\ Keep(c, o.conn, o.wire, o.masks)
  <2>1. /\ conn' = [conn EXCEPT ![c] = o.conn] /\ wire' = [wire EXCEPT ![c] = o.wire]
        /\ UNCHANGED stage
    BY <1>6 DEF Keep
  <2>2. Alone(c) /\ wire'[c] = o.wire
    BY <2>1 DEF IInv, Tables, Alone
  <2>3. Untouched(wire[c], o.wire)
    BY <1>5, <1>6 DEF Quiet
  <2> QED
    BY <1>2, <2>1, <2>2, <2>3, UnseenStep
<1>7. CASE o.end = "close" /\ Close(c, o.wire)
  <2>1. Untouched(wire[c], o.wire) /\ SameOut(wire[c], o.wire)
    BY <1>5, <1>7 DEF Quiet
  <2>2. o.wire \in WireType
    BY <1>2, <1>3, <1>7, OutcomeOfPair DEF OutcomeOK, WireOK
  <2> QED
    BY <1>7, <2>1, <2>2, CloseRefines
<1>8. CASE Killed
  BY <1>8, NothingMoves DEF Killed
<1> QED
  BY <1>3, <1>6, <1>7, <1>8

LEMMA OnErrorRefines ==
  ASSUME IInv, OnError
  PROVE  P!Next \/ UNCHANGED P!vars
<1>1. event \in Loop!Event /\ connections[event.fd] # Nil
  BY DEF OnError, IInv, Control
<1>2. PICK c \in Clients : c = connections[event.fd] /\ stage[c] = "open"
  BY <1>1, EventOfPair
<1>3. Close(c, wire[c]) /\ wire[c] \in WireType
  BY <1>2, PairOK DEF OnError, WireOK
<1>4. Untouched(wire[c], wire[c]) /\ SameOut(wire[c], wire[c])
  BY DEF Untouched, SameOut
<1> QED
  BY <1>3, <1>4, CloseRefines

\* A connection the relay makes is two empty pipes; one it refuses, or leaves
\* open by an exception, is two pipes that are cut.
LEMMA OnClientConnectRefines ==
  ASSUME IInv, IInv', NEW c \in Clients, OnClientConnect(c)
  PROVE  P!Next \/ UNCHANGED P!vars
<1>1. stage[c] = "queued" /\ wire[c] \in WireType
  BY DEF OnClientConnect, IInv, Tables
<1>2. CASE /\ stage' = [stage EXCEPT ![c] = "open"] /\ UNCHANGED wire
           /\ conn' = [conn EXCEPT ![c].clientFd = Lowest(FreeFds),
                                    ![c].backendFd = Lowest(FreeFds \ {Lowest(FreeFds)})]
  <2>1. Alone(c) /\ stage'[c] = "open" /\ wire'[c] = wire[c]
    BY <1>2 DEF IInv, Tables, Alone
  <2>2. Untouched(wire[c], wire'[c])
    BY <2>1 DEF Untouched
  <2> QED
    BY <1>1, <2>1, <2>2, UnseenStep
<1>3. CASE /\ stage' = [stage EXCEPT ![c] = "closed"] /\ UNCHANGED conn
           /\ wire' = [wire EXCEPT ![c] = AfterClose(@)]
  <2>1. Alone(c) /\ stage'[c] = "closed" /\ wire'[c] = AfterClose(wire[c])
    BY <1>3 DEF IInv, Tables, Alone
  <2>2. CutsOff(wire[c], AfterClose(wire[c]))
    BY <1>1, AfterCloseOut DEF CutsOff
  <2> QED
    BY <2>1, <2>2, EndRefines
<1> QED
  BY <1>2, <1>3 DEF OnClientConnect

LEMMA ConnectThrowsRefines ==
  ASSUME IInv, ConnectThrows
  PROVE  P!Next
<1>1. PICK c \in Clients : stage' = [stage EXCEPT ![c] = "closed"] /\ UNCHANGED <<conn, wire>>
  BY DEF ConnectThrows
<1>2. Alone(c) /\ stage'[c] = "closed" /\ wire'[c] = wire[c]
  BY <1>1 DEF IInv, Tables, Alone
<1>3. CutsOff(wire[c], wire'[c])
  BY <1>2 DEF CutsOff
<1> QED
  BY <1>2, <1>3, EndRefines

LEMMA ConnectsIsUnseen ==
  ASSUME IInv, IInv', NEW c \in Clients, ClientConnects(c)
  PROVE  UNCHANGED P!vars
<1>1. stage[c] = "away" /\ stage' = [stage EXCEPT ![c] = "queued"] /\ UNCHANGED <<conn, wire>>
  BY DEF ClientConnects
<1>2. Alone(c) /\ stage'[c] = "queued"
  BY <1>1 DEF IInv, Tables, Alone
<1>3. Untouched(wire[c], wire'[c])
  BY <1>1 DEF Untouched
<1> QED
  BY <1>1, <1>2, <1>3, UnseenStep

LEMMA StepRefines == IInv /\ [Next]_vars => P!Next \/ UNCHANGED P!vars
<1> SUFFICES ASSUME IInv, [Next]_vars PROVE P!Next \/ UNCHANGED P!vars
  OBVIOUS
<1>1. IInv'
  BY StepKeeps
<1>2. CASE Poll \/ Interrupted \/ AcceptFails \/ UNCHANGED vars
  BY <1>2, NothingMoves DEF Poll, Interrupted, AcceptFails, vars
<1>3. CASE OnPairEvent \/ OnError \/ ConnectThrows \/ \E c \in Clients : OnClientConnect(c)
  BY <1>1, <1>3, OnPairEventRefines, OnErrorRefines, ConnectThrowsRefines,
     OnClientConnectRefines
<1>4. ASSUME NEW c \in Clients,
             ClientConnects(c) \/ ClientSendsHello(c) \/ PeerCloses(c)
      PROVE  UNCHANGED P!vars
  BY <1>1, <1>4, ConnectsIsUnseen, HelloIsUnseen, PeerClosesIsUnseen
<1>5. ASSUME NEW c \in Clients,
             ClientSends(c) \/ BackendSends(c) \/ ClientReads(c) \/ BackendReads(c)
      PROVE  P!Next
  BY <1>1, <1>5, ClientSendsRefines, BackendSendsRefines, ClientReadsRefines,
     BackendReadsRefines
<1>6. ASSUME NEW c \in Clients, PeerResets(c) \/ ResetAnswersData(c)
      PROVE  P!Next
  <2>1. stage[c] = "open" /\ (ResetOf(c, "client") \/ ResetOf(c, "backend"))
    BY <1>6 DEF PeerResets, ResetAnswersData
  <2> QED
    BY <2>1, ResetRefines
<1> QED
  BY <1>2, <1>3, <1>4, <1>5, <1>6 DEF Next, Relay, Terminated

LEMMA InitRefines == Init => P!Init
<1> SUFFICES ASSUME Init PROVE P!Init
  OBVIOUS
<1>1. /\ \A c \in Clients : stage[c] = "away" /\ conn[c] = NoConn /\ wire[c] = NewWire
  BY DEF Init
<1>2. /\ NewWire.unitsSent = 0 /\ NewWire.recordsSent = 0
      /\ NewWire.clientGot = <<>> /\ NewWire.backendGot = <<>>
      /\ NewWire.client = "up" /\ NewWire.backend = "up"
  BY DEF NewWire
<1>3. 0 * RecordUnits = 0
  BY Sizes
<1>4. ~Gone("away", "up")
  BY DEF Gone
<1>5. /\ ToClientPipe("away", NoConn, NewWire) = <<>>
      /\ ToBackendPipe("away", NoConn, NewWire) = <<>>
  <2>1. Pipeline("away", NoConn, NewWire)
    <3>1. "away" # "closed"
      OBVIOUS
    <3> QED
      BY <3>1, NewFits, PipelineOK DEF Fits
  <2>2. Count(0) = <<>>
    BY DEF Count
  <2>3. PICK a \in UnitSeqs, b \in UnitSeqs :
          /\ a = ToClientPipe("away", NoConn, NewWire) /\ <<>> \o a = <<>>
          /\ b = ToBackendPipe("away", NoConn, NewWire) /\ <<>> \o b = <<>>
    BY <1>2, <1>3, <1>4, <2>1, <2>2 DEF Pipeline
  <2>4. a = <<>> /\ b = <<>>
    BY <2>3, EmptyUnits
  <2> QED
    BY <2>3, <2>4
<1>6. ASSUME NEW e \in Ends
      PROVE  Sent[e] = 0 /\ Got[e] = <<>> /\ Cut[e] = FALSE /\ InFlight[e] = <<>>
  <2>1. PICK c \in Clients, side \in {"client", "backend"} : e = <<c, side>>
    BY DEF Ends
  <2>2. Shown(c, "away", NoConn, NewWire)
    BY <1>1, Values
  <2> QED
    BY <1>2, <1>3, <1>4, <1>5, <2>1, <2>2 DEF Shown
<1>7. /\ Sent = [e \in Ends |-> 0] /\ Got = [e \in Ends |-> <<>>]
      /\ Cut = [e \in Ends |-> FALSE] /\ InFlight = [e \in Ends |-> <<>>]
  BY <1>6, Functions
<1> QED
  BY <1>7 DEF P!Init, P!Ends, Ends

\* Between a client and its backend the relay is two pipes: it delivers in
\* order and once what is written, until the peer is gone or the pair closed.
THEOREM RelayImplementsPipes == Spec => ImplementsPipes
<1>1. IInv /\ [Next]_vars => [P!Next]_P!vars
  BY StepRefines
<1> QED
  BY <1>1, InitRefines, Invariance, PTL DEF Spec, ImplementsPipes, P!Spec
=============================================================================
