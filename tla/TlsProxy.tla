------------------------------ MODULE TlsProxy ------------------------------
(***************************************************************************)
(* The TLS-terminating relay of runtime/proxy.js on top of the event loop. *)
(* Every client connection is paired with a plaintext connection to the    *)
(* backend.  Each of the two descriptors of a pair has one callback, which *)
(* is not told whether its descriptor is readable or writable and finds    *)
(* out what to do from the state of the connection.                        *)
(*                                                                         *)
(* The loop is EventLoop's: its epoll_wait, its dispatch and its crash on  *)
(* a missing callback are used as they are.  A callback of the relay runs  *)
(* to completion without returning to the loop, so it is one action here.  *)
(* The network and the peers are the environment: they interleave between  *)
(* any two callbacks, also inside a batch.                                 *)
(*                                                                         *)
(* A client sends TLS records of RecordUnits units, the backend sends      *)
(* units.  Units are numbered per connection and direction, so that a      *)
(* lost, repeated or reordered one shows.  Left out: the stats timer, the  *)
(* server's half of the handshake and the alerts of TLS.                   *)
(***************************************************************************)
EXTENDS Integers, Sequences, FiniteSets

CONSTANTS
  Clients,      \* each connects at most once
  Fds,          \* descriptor numbers free for the relay
  Nil,
  RecordUnits,  \* units in a TLS record of a client
  Capacity,     \* units that fit between send() and the peer's read
  BufUnits,     \* BUFSIZE, in units
  MaxRecords,   \* bound: records a client sends
  MaxUnits,     \* bound: units the backend sends on a connection
  Failures      \* subset of {"close", "reset"}: what peers may do

Listener == <<Nil, "listener">>
Handles == (Clients \X {"client", "backend"}) \cup {Listener}

Masks == {{}, {"in"}, {"out"}}

ASSUME ProxyAssumption ==
  /\ Fds \subseteq Nat /\ Fds # {} /\ IsFiniteSet(Fds)
  /\ Nil \notin Clients \cup Fds \cup Handles \cup Masks
  /\ {RecordUnits, Capacity, BufUnits} \subseteq Nat \ {0}
  /\ {MaxRecords, MaxUnits} \subseteq Nat
  /\ Failures \subseteq {"close", "reset"}

VARIABLES
  files, interest, callbacks, errors, size, batch, completions, pc, event,
  self,         \* the loop's, see EventLoop
  connections,  \* connections: the client whose pair a number belongs to
  stage,        \* of a client's connection, see Stages
  conn,         \* the relay's connection objects
  wire          \* sockets of a pair, the SSL object and the two peers

loopVars == <<files, interest, callbacks, errors, size, batch, completions, pc,
              event, self>>
vars == <<loopVars, connections, stage, conn, wire>>

\* away: not connected; queued: in the listener's backlog; open, closed: as
\* conn.closed says
Stages == {"away", "queued", "open", "closed"}

\* Record 0 is the client's half of the handshake.
Hello == 0
Units(r) == IF r = Hello THEN <<>>
            ELSE [i \in 1..RecordUnits |-> (r - 1) * RecordUnits + i]

NoConn ==
  [clientFd |-> Nil, backendFd |-> Nil,
   secure |-> FALSE,        \* state === SECURE
   toBackend |-> <<>>,      \* pendingToBackendBuf from the offset on
   toClient |-> <<>>,       \* pendingToClientBuf
   backendEOF |-> FALSE]

NewWire ==
  [client |-> "up",         \* the client process: up, closed or reset
   backend |-> "up",
   recordsSent |-> 0, unitsSent |-> 0, helloSent |-> FALSE,
   clientIn |-> <<>>,       \* records in the client socket's receive buffer
   ssl |-> <<>>,            \* records SSL has read ahead of SSL_read
   shaken |-> FALSE,        \* SSL has completed its handshake
   pushed |-> 0,            \* units of toClient SSL_write has pushed so far
   backendOut |-> <<>>, backendGot |-> <<>>,   \* to the backend
   backendIn |-> <<>>,                         \* from the backend
   clientOut |-> <<>>, clientGot |-> <<>>]     \* to the client

Shorter(a, b) == IF a < b THEN a ELSE b
FirstOf(s, n) == SubSeq(s, 1, Shorter(n, Len(s)))
RestOf(s, n)  == SubSeq(s, n + 1, Len(s))

-----------------------------------------------------------------------------
(* The event loop. *)

\* What epoll would report on each file.  A peer that closed makes its
\* socket readable (end of file); one that reset it, "hup".
Ready ==
  [h \in Handles |->
     IF h = Listener
       THEN {x \in {"in"} : \E c \in Clients : stage[c] = "queued"}
     ELSE LET w    == wire[h[1]]
              peer == IF h[2] = "client" THEN w.client ELSE w.backend
              in   == IF h[2] = "client" THEN w.clientIn ELSE w.backendIn
              out  == IF h[2] = "client" THEN w.clientOut ELSE w.backendOut
          IN  {x \in {"in"} : in # <<>> \/ peer # "up"}
                \cup {x \in {"out"} : Len(out) < Capacity \/ peer = "reset"}
                \cup {x \in {"hup"} : peer = "reset"}]

Loop == INSTANCE EventLoop WITH
  Masks <- Masks, Conditions <- {"in", "out", "hup"},
  MaxEvents <- Cardinality(Fds), MaxImmediates <- 0,
  ready <- Ready, immediates <- <<>>, immLeft <- 0, cutoff <- 0,
  nextTicket <- 0, enrolled <- {}, program <- {"closes_others"},
  fdOf <- [h \in Handles |-> Nil]

Poll ==
  /\ UNCHANGED <<connections, stage, conn, wire>>
  /\ Loop!PollWait \/ Loop!DispatchEvent \/ Loop!PollReturn

\* A signal ends the process's loop.
Interrupted == UNCHANGED <<connections, stage, conn, wire>> /\ Loop!PollInterrupted

FreeFds == {fd \in Fds : Loop!Free(fd)}
Lowest(S) == CHOOSE fd \in S : \A g \in S : fd <= g

\* start_server has run: socket, bind, listen and loop.add
Init ==
  LET fd == Lowest(Fds)
  IN  /\ files = [f \in Fds |-> IF f = fd THEN Listener ELSE Nil]
      /\ interest = [f \in Fds |-> IF f = fd THEN {"in"} ELSE Nil]
      /\ callbacks = files
      /\ errors = files
      /\ size = 1
      /\ batch = <<>>
      /\ completions = 0
      /\ pc = "poll"
      /\ event = Loop!NoEvent
      /\ self = Nil
      /\ connections = [f \in Fds |-> Nil]
      /\ stage = [c \in Clients |-> "away"]
      /\ conn = [c \in Clients |-> NoConn]
      /\ wire = [c \in Clients |-> NewWire]

\* The callback returns to poll().
BackToPoll == pc' = "drain" /\ self' = Nil /\ event' = Loop!NoEvent
              /\ UNCHANGED <<batch, completions>>

-----------------------------------------------------------------------------
(* The network and the peers. *)

Peer(c, w) == wire' = [wire EXCEPT ![c] = w] /\ UNCHANGED <<loopVars,
                connections, stage, conn>>

ClientConnects(c) ==
  /\ stage[c] = "away"
  /\ stage' = [stage EXCEPT ![c] = "queued"]
  /\ UNCHANGED <<loopVars, connections, conn, wire>>

ClientSendsHello(c) ==
  LET w == wire[c]
  IN  /\ stage[c] \in {"queued", "open"} /\ w.client = "up" /\ ~w.helloSent
      /\ Peer(c, [w EXCEPT !.helloSent = TRUE, !.clientIn = Append(@, Hello)])

ClientSends(c) ==
  LET w == wire[c]
  IN  /\ stage[c] = "open" /\ w.client = "up"
      /\ w.shaken /\ w.recordsSent < MaxRecords
      /\ Peer(c, [w EXCEPT !.recordsSent = @ + 1,
                           !.clientIn = Append(@, w.recordsSent + 1)])

BackendSends(c) ==
  LET w == wire[c]
  IN  /\ stage[c] = "open" /\ w.backend = "up" /\ w.unitsSent < MaxUnits
      /\ Peer(c, [w EXCEPT !.unitsSent = @ + 1,
                           !.backendIn = Append(@, w.unitsSent + 1)])

\* What was sent on a connection still arrives after the relay closed it.
ClientReads(c) ==
  LET w == wire[c]
  IN  /\ w.client = "up" /\ w.clientOut # <<>>
      /\ Peer(c, [w EXCEPT !.clientGot = Append(@, Head(w.clientOut)),
                           !.clientOut = Tail(@)])

BackendReads(c) ==
  LET w == wire[c]
  IN  /\ w.backend = "up" /\ w.backendOut # <<>>
      /\ Peer(c, [w EXCEPT !.backendGot = Append(@, Head(w.backendOut)),
                           !.backendOut = Tail(@)])

\* The end of file of a peer follows what it sent.
PeerCloses(c) ==
  LET w == wire[c]
  IN  /\ "close" \in Failures /\ stage[c] = "open"
      /\ \/ w.client = "up" /\ Peer(c, [w EXCEPT !.client = "closed"])
         \/ w.backend = "up" /\ Peer(c, [w EXCEPT !.backend = "closed"])

\* The connection to a peer is reset, and what the relay's socket still had
\* to send is dropped.
ResetOf(c, side) ==
  LET w == wire[c]
  IN  Peer(c, IF side = "client" THEN [w EXCEPT !.client = "reset", !.clientOut = <<>>]
              ELSE [w EXCEPT !.backend = "reset", !.backendOut = <<>>])

PeerResets(c) ==
  /\ "reset" \in Failures /\ stage[c] = "open"
  /\ \/ wire[c].client = "up" /\ ResetOf(c, "client")
     \/ wire[c].backend = "up" /\ ResetOf(c, "backend")

\* A peer that has closed its socket answers data with a reset.
ResetAnswersData(c) ==
  LET w == wire[c]
  IN  /\ stage[c] = "open"
      /\ \/ w.client = "closed" /\ w.clientOut # <<>> /\ ResetOf(c, "client")
         \/ w.backend = "closed" /\ w.backendOut # <<>> /\ ResetOf(c, "backend")

-----------------------------------------------------------------------------
(* What a callback does to a connection, as an outcome: the connection     *)
(* object and the sockets afterwards, the two interest masks and whether   *)
(* the pair stays open.  Where the kernel has a choice an operator is a    *)
(* set of outcomes.                                                        *)

Outcome(k, w, masks, end) == [conn |-> k, wire |-> w, masks |-> masks, end |-> end]

\* Slips: masks a mistaken edit could install, and operations with one
\* mistake each.  No specification uses them; the properties must notice
\* every one.
RelayingAlwaysWritable == <<{"in", "out"}, {"in"}>>
ToClientNotWritable    == <<{"in"}, {}>>
ToClientStillReading   == <<{"out"}, {"in"}>>

\* interest of the client's and of the backend's descriptor
Relaying == <<{"in"}, {"in"}>>
ToBackend == <<{}, {"out"}>>
ToClient == <<{"out"}, {}>>

Now(c) == <<interest[conn[c].clientFd], interest[conn[c].backendFd]>>

Closed(k, w) == Outcome(k, w, <<>>, "close")

\* send() or SSL_write on a socket that was reset: ECONNRESET the first
\* time, unless the peer had closed before; otherwise EPIPE, with a SIGPIPE
\* that nothing in the program ignores.
OnReset(failed, k, w) == {failed, Outcome(k, w, <<>>, "kill")}

\* SSL fills its buffer from the socket only when it is empty, and then with
\* all there is (SSL_CTX_set_read_ahead).
Filled(w) ==
  IF w.ssl # <<>> THEN w
  ELSE [w EXCEPT !.ssl = w.clientIn, !.clientIn = <<>>]

\* SSL_accept, and the handshake SSL_read and SSL_write make if need be
Shake(w) ==
  IF w.shaken THEN w
  ELSE LET f == Filled(w)
       IN  IF f.ssl = <<>> THEN f
           ELSE [f EXCEPT !.shaken = TRUE, !.ssl = Tail(@)]

\* SSL_get_error after a call that found no record: want_retry or not
Broken(w) == w.client # "up" /\ w.ssl = <<>>

\* Slip: the whole chunk is staged after a part of it was sent
WriteToBackendStagesAll(k, w, data, masks) ==
  LET n == Shorter(Capacity - Len(w.backendOut), Len(data))
      sent == [w EXCEPT !.backendOut = @ \o FirstOf(data, n)]
  IN  IF w.backend = "reset"
        THEN OnReset(Outcome([k EXCEPT !.toBackend = data], w, ToBackend, "open"),
                     k, w)
      ELSE {Outcome([k EXCEPT !.toBackend = IF n = Len(data) THEN <<>> ELSE data],
                    sent, IF n = Len(data) THEN masks ELSE ToBackend, "open")}

WriteToBackend(k, w, data, masks) ==
  LET n == Shorter(Capacity - Len(w.backendOut), Len(data))
      staged == [k EXCEPT !.toBackend = RestOf(data, n)]
      sent == [w EXCEPT !.backendOut = @ \o FirstOf(data, n)]
  IN  IF w.backend = "reset"
        THEN OnReset(Outcome([k EXCEPT !.toBackend = data], w, ToBackend, "open"),
                     k, w)
      ELSE IF n = Len(data) THEN {Outcome(k, sent, masks, "open")}
      ELSE {Outcome(staged, sent, ToBackend, "open")}

\* One SSL_read, which returns the data of one record.
ReadFromClient(k, w, masks) ==
  LET f == Filled(w)
  IN  IF f.ssl # <<>>
        THEN WriteToBackend(k, [f EXCEPT !.ssl = Tail(@)], Units(Head(f.ssl)), masks)
      ELSE IF Broken(f) THEN {Closed(k, f)}
      ELSE {Outcome(k, f, masks, "open")}

\* Slip: the client is not read again after the flush
FlushToBackendOneSided(k, w, masks) ==
  LET n == Shorter(Capacity - Len(w.backendOut), Len(k.toBackend))
      rest == [k EXCEPT !.toBackend = RestOf(@, n)]
      sent == [w EXCEPT !.backendOut = @ \o FirstOf(k.toBackend, n)]
  IN  IF w.backend = "reset" THEN OnReset(Closed(k, w), k, w)
      ELSE {Outcome(rest, sent,
                    IF n = Len(k.toBackend) THEN <<{}, {"in"}>> ELSE masks, "open")}

FlushToBackend(k, w, masks) ==
  LET n == Shorter(Capacity - Len(w.backendOut), Len(k.toBackend))
      rest == [k EXCEPT !.toBackend = RestOf(@, n)]
      sent == [w EXCEPT !.backendOut = @ \o FirstOf(k.toBackend, n)]
  IN  IF w.backend = "reset" THEN OnReset(Closed(k, w), k, w)
      ELSE {Outcome(rest, sent,
                    IF n = Len(k.toBackend) THEN Relaying ELSE masks, "open")}

\* SSL_write succeeds when all of the chunk has been pushed; until then it
\* keeps its place and asks to be called again with the same chunk.
TryWriteToClient(k, w, wasPending, masks) ==
  LET s == Shake(w)
      n == Shorter(Capacity - Len(s.clientOut), Len(k.toClient) - s.pushed)
      pushed == [s EXCEPT !.clientOut = @ \o FirstOf(RestOf(k.toClient, s.pushed), n),
                          !.pushed = @ + n]
      done == [k EXCEPT !.toClient = <<>>]
      retry == IF wasPending THEN masks ELSE ToClient
  IN  IF ~s.shaken
        THEN {IF Broken(s) THEN Closed(k, s) ELSE Outcome(k, s, retry, "open")}
      ELSE IF s.client = "reset" THEN OnReset(Closed(k, s), k, s)
      ELSE IF pushed.pushed < Len(k.toClient)
        THEN {Outcome(k, pushed, retry, "open")}
      ELSE IF wasPending /\ k.backendEOF
        THEN {Closed(done, [pushed EXCEPT !.pushed = 0])}
      ELSE {Outcome(done, [pushed EXCEPT !.pushed = 0],
                    IF wasPending THEN Relaying ELSE masks, "open")}

\* Slip: the chunk is forgotten when SSL_write did not take it (the first
\* version of the relay, proxy.js:11-14)
ReadFromBackendForgets(k, w, masks) ==
  LET data == FirstOf(w.backendIn, BufUnits)
      v == [w EXCEPT !.backendIn = RestOf(@, Len(data))]
  IN  IF data # <<>>
        THEN {[o EXCEPT !.conn.toClient = <<>>] :
                o \in TryWriteToClient([k EXCEPT !.toClient = data], v, FALSE, masks)}
      ELSE IF w.backend = "up" THEN {Outcome(k, w, masks, "open")}
      ELSE {Closed(k, w)}

\* Slip: a backend that has closed is not read to its end
ReadFromBackendHasty(k, w, masks) ==
  LET data == FirstOf(w.backendIn, BufUnits)
  IN  IF w.backend # "up" THEN {Closed(k, w)}
      ELSE IF data = <<>> THEN {Outcome(k, w, masks, "open")}
      ELSE TryWriteToClient([k EXCEPT !.toClient = data],
                            [w EXCEPT !.backendIn = RestOf(@, Len(data))],
                            FALSE, masks)

ReadFromBackend(k, w, masks) ==
  LET data == FirstOf(w.backendIn, BufUnits)
  IN  IF data # <<>>
        THEN TryWriteToClient([k EXCEPT !.toClient = data],
                              [w EXCEPT !.backendIn = RestOf(@, Len(data))],
                              FALSE, masks)
      ELSE IF w.backend = "up" THEN {Outcome(k, w, masks, "open")}
      ELSE IF w.backend = "closed" /\ k.toClient # <<>>
        THEN {Outcome([k EXCEPT !.backendEOF = TRUE], w, masks, "open")}
      ELSE {Closed(k, w)}

OnClientFdEvent(k, w, masks) ==
  LET s == IF k.secure THEN w ELSE Shake(w)
  IN  IF k.toClient # <<>> THEN TryWriteToClient(k, w, TRUE, masks)
      ELSE IF s.shaken THEN ReadFromClient([k EXCEPT !.secure = TRUE], s, masks)
      ELSE IF Broken(s) THEN {Closed(k, s)}
      ELSE {Outcome(k, s, masks, "open")}

OnBackendFdEvent(k, w, masks) ==
  IF k.toBackend # <<>> THEN FlushToBackend(k, w, masks)
  ELSE ReadFromBackend(k, w, masks)

-----------------------------------------------------------------------------
(* The callbacks. *)

\* close(2) with unread data in a socket resets its connection: the peer
\* loses what it had not read.
AfterClose(w) ==
  [w EXCEPT !.ssl = <<>>, !.pushed = 0, !.clientIn = <<>>, !.backendIn = <<>>,
            !.clientOut = IF w.clientIn # <<>> THEN <<>> ELSE @,
            !.backendOut = IF w.backendIn # <<>> THEN <<>> ELSE @]

\* Slip: close_conn without loop.remove(conn.backendFd)
CloseConnForgetsBackend(c, w) ==
  LET k    == conn[c]
      fds  == {k.clientFd, k.backendFd}
      Without(f, S) == [fd \in Fds |-> IF fd \in S THEN Nil ELSE f[fd]]
  IN  /\ size' = size - 1
      /\ callbacks' = Without(callbacks, {k.clientFd})
      /\ errors' = Without(errors, {k.clientFd})
      /\ interest' = Without(interest, fds)
      /\ files' = Without(files, fds)
      /\ connections' = Without(connections, fds)
      /\ stage' = [stage EXCEPT ![c] = "closed"]
      /\ conn' = [conn EXCEPT ![c] = NoConn]
      /\ wire' = [wire EXCEPT ![c] = AfterClose(w)]

\* close_conn removes and closes both descriptors of the pair.
CloseConn(c, w) ==
  LET k    == conn[c]
      fds  == {k.clientFd, k.backendFd}
      Without(f) == [fd \in Fds |-> IF fd \in fds THEN Nil ELSE f[fd]]
  IN  /\ size' = size - Cardinality({fd \in fds : callbacks[fd] # Nil})
      /\ callbacks' = Without(callbacks)
      /\ errors' = Without(errors)
      /\ interest' = Without(interest)
      /\ files' = Without(files)
      /\ connections' = Without(connections)
      /\ stage' = [stage EXCEPT ![c] = "closed"]
      /\ conn' = [conn EXCEPT ![c] = NoConn]
      /\ wire' = [wire EXCEPT ![c] = AfterClose(w)]

Killed ==
  /\ pc' = "killed"
  /\ UNCHANGED <<files, interest, callbacks, errors, size, batch, completions,
                 event, self, connections, stage, conn, wire>>

\* close_conn calls SSL_shutdown, which writes to the client's socket: if
\* that was reset it may raise SIGPIPE.
Close(c, w) ==
  \/ CloseConn(c, w) /\ BackToPoll
  \/ w.shaken /\ w.client = "reset" /\ Killed

\* loop.modify on both descriptors where the masks changed; the callbacks
\* it installs are the ones there.
Keep(c, k, w, masks) ==
  /\ interest' = [interest EXCEPT ![k.clientFd] = masks[1],
                                  ![k.backendFd] = masks[2]]
  /\ conn' = [conn EXCEPT ![c] = k]
  /\ wire' = [wire EXCEPT ![c] = w]
  /\ BackToPoll
  /\ UNCHANGED <<files, callbacks, errors, size, connections, stage>>

Handle(c, outcomes) ==
  \E o \in outcomes :
    \/ o.end = "open"  /\ Keep(c, o.conn, o.wire, o.masks)
    \/ o.end = "close" /\ Close(c, o.wire)
    \/ o.end = "kill"  /\ Killed

\* The callbacks find their connection by the number they are called with.
OnPairEvent ==
  LET c == connections[event.fd]
  IN  /\ pc = "event" /\ self # Listener
      /\ c # Nil
      /\ Handle(c, IF self[2] = "client"
                     THEN OnClientFdEvent(conn[c], wire[c], Now(c))
                     ELSE OnBackendFdEvent(conn[c], wire[c], Now(c)))

\* on_error closes the pair; the loop's own remove then finds nothing.
OnError ==
  LET c == connections[event.fd]
  IN  /\ pc = "error"
      /\ c # Nil
      /\ Close(c, wire[c])

\* accept and connect_backend take the lowest free numbers.
OnClientConnect(c) ==
  LET f == Lowest(FreeFds)
      g == Lowest(FreeFds \ {f})
      client == <<c, "client">>
      backend == <<c, "backend">>
  IN  /\ pc = "event" /\ self = Listener
      /\ stage[c] = "queued"
      /\ Cardinality(FreeFds) >= 2
      /\ BackToPoll
      /\ \/ /\ files' = [files EXCEPT ![f] = client, ![g] = backend]
            /\ interest' = [interest EXCEPT ![f] = {"in"}, ![g] = {"in"}]
            /\ callbacks' = [callbacks EXCEPT ![f] = client, ![g] = backend]
            /\ errors' = [errors EXCEPT ![f] = client, ![g] = backend]
            /\ size' = size + 2
            /\ connections' = [connections EXCEPT ![f] = c, ![g] = c]
            /\ stage' = [stage EXCEPT ![c] = "open"]
            /\ conn' = [conn EXCEPT ![c].clientFd = f, ![c].backendFd = g]
            /\ UNCHANGED wire
         \/ /\ stage' = [stage EXCEPT ![c] = "closed"]   \* connect refused
            /\ wire' = [wire EXCEPT ![c] = AfterClose(@)]
            /\ UNCHANGED <<files, interest, callbacks, errors, size,
                           connections, conn>>

\* The descriptor table of the process or of the system is full (EMFILE,
\* ENFILE): accept() fails, and the listener stays ready.
AcceptFails ==
  /\ pc = "event" /\ self = Listener
  /\ BackToPoll
  /\ UNCHANGED <<files, interest, callbacks, errors, size, connections, stage,
                 conn, wire>>

\* accept() takes a number and socket() in connect_backend gets none: its
\* assertion leaves the accepted descriptor open, and poll() by an exception.
ConnectThrows ==
  /\ pc = "event" /\ self = Listener
  /\ FreeFds # {}
  /\ \E c \in Clients :
       /\ stage[c] = "queued"
       /\ files' = [files EXCEPT ![Lowest(FreeFds)] = <<c, "client">>]
       /\ stage' = [stage EXCEPT ![c] = "closed"]
  /\ pc' = "threw"
  /\ UNCHANGED <<interest, callbacks, errors, size, batch, completions, event,
                 self, connections, conn, wire>>

Terminated ==
  /\ pc \in {"exited", "threw", "crashed", "killed"}
  /\ UNCHANGED vars

Relay ==
  \/ Poll
  \/ OnPairEvent
  \/ OnError
  \/ AcceptFails
  \/ ConnectThrows
  \/ \E c \in Clients : OnClientConnect(c)

Next ==
  \/ Relay
  \/ Interrupted
  \/ \E c \in Clients :
       \/ ClientConnects(c)
       \/ ClientSendsHello(c)
       \/ ClientSends(c)
       \/ BackendSends(c)
       \/ ClientReads(c)
       \/ BackendReads(c)
       \/ PeerCloses(c)
       \/ PeerResets(c)
       \/ ResetAnswersData(c)
  \/ Terminated

Spec == Init /\ [][Next]_vars

\* The relay runs whenever it can, peers that are up read what reaches them,
\* a client makes its half of the handshake, and TCP delivers a reset.
Fairness ==
  /\ WF_vars(Relay)
  /\ \A c \in Clients : /\ WF_vars(ClientReads(c))
                        /\ WF_vars(BackendReads(c))
                        /\ WF_vars(ClientSendsHello(c))
                        /\ WF_vars(ResetAnswersData(c))

FairSpec == Spec /\ Fairness

-----------------------------------------------------------------------------
(* Properties. *)

Records  == 0..MaxRecords
Unit     == 1..(MaxUnits + MaxRecords * RecordUnits)
UnitSeqs == Seq(Unit)

ConnType ==
  [clientFd : Fds \cup {Nil}, backendFd : Fds \cup {Nil},
   secure : BOOLEAN, toBackend : UnitSeqs, toClient : UnitSeqs,
   backendEOF : BOOLEAN]

WireType ==
  [client : {"up", "closed", "reset"}, backend : {"up", "closed", "reset"},
   recordsSent : Records, unitsSent : 0..MaxUnits, helloSent : BOOLEAN,
   clientIn : Seq(Records), ssl : Seq(Records), shaken : BOOLEAN,
   pushed : Nat,
   backendOut : UnitSeqs, backendGot : UnitSeqs, backendIn : UnitSeqs,
   clientOut : UnitSeqs, clientGot : UnitSeqs]

TypeOK ==
  /\ files \in [Fds -> Handles \cup {Nil}]
  /\ interest \in [Fds -> Masks \cup {Nil}]
  /\ callbacks \in [Fds -> Handles \cup {Nil}]
  /\ errors \in [Fds -> Handles \cup {Nil}]
  /\ size \in Nat
  /\ batch \in Seq(Loop!Event)
  /\ completions \in Int
  /\ pc \in {"poll", "drain", "event", "error", "exited", "threw", "crashed",
             "killed"}
  /\ event \in Loop!Event \cup {Loop!NoEvent}
  /\ self \in Handles \cup {Nil}
  /\ connections \in [Fds -> Clients \cup {Nil}]
  /\ stage \in [Clients -> Stages]
  /\ conn \in [Clients -> ConnType]
  /\ wire \in [Clients -> WireType]

Open(c) == stage[c] = "open"

\* The pair is registered as a whole or not at all, under the numbers its
\* connection object has: connections, the loop's tables, the interest list
\* and the descriptor table never disagree about whose a number is, through
\* closes from either side and numbers used again.
PairsRegisteredTogether ==
  /\ Loop!TablesAgree
  /\ Loop!SizeCountsRegistrations
  /\ \A c \in Clients :
       {fd \in Fds : connections[fd] = c}
         = (IF Open(c) THEN {conn[c].clientFd, conn[c].backendFd} ELSE {})
  /\ \A c \in Clients : Open(c) =>
       /\ callbacks[conn[c].clientFd] = <<c, "client">>
       /\ callbacks[conn[c].backendFd] = <<c, "backend">>

\* Interest follows the backlog: a side with a backlog waits to be writable
\* and the other is not read, otherwise both are read.  The backlog is in one
\* direction at a time, which the one mask per descriptor depends on: with
\* both, the flush of one would end the wait of the other.  A backend whose
\* units wait for the client is not read, so that its end of file is not
\* found either and the branch that puts a close off until the backlog is
\* flushed (proxy.js:173-176) is never needed: no event of an earlier batch
\* is left to bring it about.
InterestFollowsBacklog ==
  \A c \in Clients : Open(c) =>
    /\ conn[c].toBackend = <<>> \/ conn[c].toClient = <<>>
    /\ ~conn[c].backendEOF
    /\ Now(c) = (IF conn[c].toBackend # <<>> THEN ToBackend
                 ELSE IF conn[c].toClient # <<>> THEN ToClient
                 ELSE Relaying)

\* Towards the client nothing is lost, repeated or reordered through short
\* writes, retries of SSL_write and closes: what the backend sent is, in
\* order, with the client, in its socket, the rest of the staged chunk, and
\* unread.  After a close the client has a prefix.
ClientStreamIntact ==
  \A c \in Clients :
    LET w == wire[c]
        arrived == w.clientGot \o w.clientOut
    IN  /\ arrived = [i \in 1..Len(arrived) |-> i]
        /\ Open(c) /\ w.client # "reset" =>
             arrived \o RestOf(conn[c].toClient, w.pushed) \o w.backendIn
               = [i \in 1..w.unitsSent |-> i]

\* Records of data the relay has still to read.  Before the handshake there
\* is none: a client waits for it.
Unread(w) == IF w.shaken THEN w.ssl \o w.clientIn ELSE <<>>

UnitsOf(s) ==
  [i \in 1..(RecordUnits * Len(s)) |->
     Units(s[((i - 1) \div RecordUnits) + 1])[((i - 1) % RecordUnits) + 1]]

\* The same towards the backend, through the records SSL has read ahead and
\* the staged rest of a short send().
BackendStreamIntact ==
  \A c \in Clients :
    LET w == wire[c]
        arrived == w.backendGot \o w.backendOut
    IN  /\ arrived = [i \in 1..Len(arrived) |-> i]
        /\ Open(c) /\ w.backend # "reset" =>
             arrived \o conn[c].toBackend \o UnitsOf(Unread(w))
               = [i \in 1..(w.recordsSent * RecordUnits) |-> i]

\* The connections as Pipes knows them.  A pipe towards a peer is cut when
\* that peer has reset its connection or the relay has closed the pair; until
\* then all that is staged, read ahead or unread is in it.
Gone(s, peer) == s = "closed" \/ peer = "reset"

ToClientPipe(s, k, w) ==
  IF Gone(s, w.client) THEN w.clientOut
  ELSE w.clientOut \o RestOf(k.toClient, w.pushed) \o w.backendIn

ToBackendPipe(s, k, w) ==
  IF Gone(s, w.backend) THEN w.backendOut
  ELSE w.backendOut \o k.toBackend \o UnitsOf(Unread(w))

Ends == Clients \X {"client", "backend"}

Sent == [e \in Ends |-> IF e[2] = "client" THEN wire[e[1]].unitsSent
                        ELSE wire[e[1]].recordsSent * RecordUnits]

Got == [e \in Ends |-> IF e[2] = "client" THEN wire[e[1]].clientGot
                       ELSE wire[e[1]].backendGot]

Cut == [e \in Ends |-> Gone(stage[e[1]], IF e[2] = "client" THEN wire[e[1]].client
                                         ELSE wire[e[1]].backend)]

InFlight ==
  [e \in Ends |->
     IF e[2] = "client" THEN ToClientPipe(stage[e[1]], conn[e[1]], wire[e[1]])
     ELSE ToBackendPipe(stage[e[1]], conn[e[1]], wire[e[1]])]

P == INSTANCE Pipes WITH Sizes <- {1, RecordUnits}, sent <- Sent,
       inFlight <- InFlight, got <- Got, cut <- Cut

\* A client and its backend cannot tell the relay from two pipes: whatever
\* the sizes of records, chunks and writes, nothing is lost from the middle
\* of a stream, repeated, reordered or invented, and what is cut stays cut.
ImplementsPipes == P!Spec

\* A clean end of the backend's stream does not truncate it: when the relay
\* closes because it read that end, everything the backend sent is with the
\* client or on its way, unless the client has data in its socket that the
\* relay has not read, for then close(2) resets the client's connection.
EndOfBackendDelivered ==
  [][\A c \in Clients :
       /\ Open(c) /\ stage'[c] = "closed"
       /\ pc = "event" /\ self[2] = "backend"
       /\ wire[c].backend = "closed" /\ wire[c].client = "up"
       /\ wire[c].clientIn = <<>>
       => wire'[c].clientGot \o wire'[c].clientOut
            = [i \in 1..wire[c].unitsSent |-> i]]_vars

Stopped == pc \in {"exited", "threw", "crashed", "killed"}

\* What the backend sends reaches the client, as long as the connection and
\* the process live: no backlog is left without an event that will flush it.
BackendReachesClient ==
  \A c \in Clients, n \in 1..MaxUnits :
    wire[c].unitsSent >= n ~>
      \/ n \in {wire[c].clientGot[i] : i \in 1..Len(wire[c].clientGot)}
      \/ ~Open(c) \/ wire[c].client # "up" \/ Stopped

\* proxy.js:4-5: "relay raw decrypted bytes to the plaintext backend".  What
\* a client sends reaches the backend.
ClientReachesBackend ==
  \A c \in Clients, n \in 1..MaxRecords :
    wire[c].recordsSent >= n ~>
      \/ Len(wire[c].backendGot) >= n * RecordUnits
      \/ ~Open(c) \/ wire[c].backend # "up" \/ Stopped

\* proxy.js:58-59: "close_conn tears both down together, whichever side
\* triggers it".  Closing a pair is an ordinary event, and the relay goes on
\* to serve the others.
TearDownIsSafe == pc # "crashed"
=============================================================================
