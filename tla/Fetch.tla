------------------------------- MODULE Fetch -------------------------------
(***************************************************************************)
(* The HTTP client of lib/fetch2.js, on the lookups of Dns.  A fetch looks *)
(* its host up, takes a kept connection from the pool or opens one, and is *)
(* answered through the callback of the connection.                        *)
(*                                                                         *)
(* The callbacks close only the descriptor they run for, so that by        *)
(* EventLoop's EventsReachTheirHandle an event reaches its connection, and *)
(* the loop is not modelled again: a callback is an action.  A connection  *)
(* is named after the fetch that opened it.  All fetches are of one host,  *)
(* port and protocol.                                                      *)
(*                                                                         *)
(* A response is a sequence of tokens: two for the headers, one for each   *)
(* unit of the body, and after a chunked one "last" (0 CRLF), "cr", "lf".  *)
(***************************************************************************)
EXTENDS Integers, Sequences, FiniteSets

CONSTANTS
  Fetches,
  MaxCopies,   \* bound: times the network delivers one answer
  MaxUnits,    \* bound: units of a body
  Nil

ASSUME FetchAssumption ==
  /\ MaxCopies \in Nat \ {0} /\ MaxUnits \in Nat
  /\ {Nil, "pending", "rejected"} \cap Fetches = {}

VARIABLES
  node, query, answer, copies, told,   \* of Dns, a lookup for each fetch
  (* a connection *)
  sock,        \* "none", "connecting", "open" or "closed"
  tls,         \* how far SSL is: "off", "hello", "flight", "done"
  secure,      \* sock.state = SECURE
  asked,       \* the request on the way to the server
  current,     \* the request that was sent last
  shape,       \* the response to it
  wire,        \* what the server has sent and the client not read
  response,    \* the fields of sock.response that steer handle_response
  held,        \* the part of the headers, or less, that is in the buffer
  spent,       \* the chunk decoder has come to an end of chunks
  uses,        \* requests so far
  sink,        \* what on_bytes, as set by the last callback, has collected
  (* the module and its callers *)
  sockets,     \* the pool
  promise,     \* of a fetch: "pending", "rejected" or the request answered
  completed,   \* calls of on_complete
  protocol,    \* "http" or "https"
  calm,        \* nothing fails in this behaviour, and no handshake ends late
  alive        \* the process runs callbacks

dnsVars  == <<node, query, answer, copies, told>>
connVars == <<sock, tls, secure, asked, current, shape, wire, response,
              held, spent, uses, sink>>
vars == <<dnsVars, connVars, sockets, promise, completed, protocol, calm, alive>>

Dns == INSTANCE Dns WITH Lookups <- Fetches

Shape == [chunked : BOOLEAN, units : 0..MaxUnits]

T(name)    == [t |-> name]
Body(f, n) == [i \in 1..n |-> [t |-> "unit", of |-> f, at |-> i]]
Headers      == <<T("h1"), T("h2")>>

Payload(f, s) ==
  Body(f, s.units)
    \o IF s.chunked THEN <<T("last"), T("cr"), T("lf")>> ELSE <<>>

Tokens(f, s) == Headers \o Payload(f, s)

NewResponse == [headers_done |-> FALSE, chunked |-> FALSE, content_length |-> 0,
                body_bytes |-> 0]

\* http_get looks for protocol:ip:port.  A plain socket has no address
\* field, so it is stored under protocol:undefined:port and never found.
Keys     == {"ip", "undefined"}
StoreKey == IF protocol = "https" THEN "ip" ELSE "undefined"

Init ==
  /\ Dns!Init
  /\ sock = [c \in Fetches |-> "none"]
  /\ tls = [c \in Fetches |-> "off"]
  /\ secure = [c \in Fetches |-> FALSE]
  /\ asked = [c \in Fetches |-> Nil]
  /\ current = [c \in Fetches |-> Nil]
  /\ shape = [c \in Fetches |-> [chunked |-> FALSE, units |-> 0]]
  /\ wire = [c \in Fetches |-> <<>>]
  /\ response = [c \in Fetches |-> NewResponse]
  /\ held = [c \in Fetches |-> <<>>]
  /\ spent = [c \in Fetches |-> FALSE]
  /\ uses = [c \in Fetches |-> 0]
  /\ sink = [c \in Fetches |-> <<>>]
  /\ sockets = [k \in Keys |-> Nil]
  /\ promise = [f \in Fetches |-> "pending"]
  /\ completed = {}
  /\ protocol \in {"http", "https"}
  /\ calm \in BOOLEAN
  /\ alive = TRUE

-----------------------------------------------------------------------------
(* http_get and fetch. *)

\* sock.write(create_request(...)) for fetch f
Write(c, f) ==
  /\ asked' = [asked EXCEPT ![c] = f]
  /\ current' = [current EXCEPT ![c] = f]
  /\ uses' = [uses EXCEPT ![c] = @ + 1]

NoWrite == UNCHANGED <<asked, current, uses>>

Connect(f) ==
  /\ sockets["ip"] = Nil
  /\ sock' = [sock EXCEPT ![f] = "connecting"]
  /\ NoWrite /\ UNCHANGED <<response, sockets>>

\* Slip: a Reuse that leaves the connection in the pool
ReuseKeepsEntry(f) ==
  /\ sockets["ip"] # Nil
  /\ LET c == sockets["ip"] IN
       /\ Write(c, f)
       /\ response' = [response EXCEPT ![c] = NewResponse]
  /\ UNCHANGED <<sock, sockets>>

\* A kept connection: its response object is reset, and the request written.
\* The callback of this fetch is dropped; the connection keeps its own.
Reuse(f) ==
  /\ sockets["ip"] # Nil
  /\ LET c == sockets["ip"] IN
       /\ Write(c, f)
       /\ response' = [response EXCEPT ![c] = NewResponse]
  /\ sockets' = [sockets EXCEPT !["ip"] = Nil]
  /\ UNCHANGED sock

\* The callback http_get gives to lookup
OnRecord(f, what) ==
  /\ \/ /\ what = "error"
        /\ promise' = [promise EXCEPT ![f] = IF @ = "pending" THEN "rejected" ELSE @]
        /\ NoWrite /\ UNCHANGED <<sock, response, sockets>>
     \/ /\ what = "ip"
        /\ Connect(f) \/ Reuse(f)
        /\ UNCHANGED promise
  /\ UNCHANGED <<tls, secure, shape, wire, held, spent, sink, completed,
                 protocol, calm>>

Start(f) ==
  \/ Dns!FoundInHosts(f) /\ OnRecord(f, "ip") /\ UNCHANGED alive
  \/ Dns!Send(f)
     /\ UNCHANGED <<connVars, sockets, promise, completed, protocol, calm, alive>>
  \/ ~calm /\ Dns!SendFails(f) /\ OnRecord(f, "error") /\ UNCHANGED alive

OnAnswer(f) ==
  \/ Dns!Succeeds(f) /\ OnRecord(f, "ip") /\ UNCHANGED alive
  \/ Dns!Fails(f) /\ OnRecord(f, "error") /\ UNCHANGED alive
  \/ Dns!Throws(f) /\ alive' = FALSE
     /\ UNCHANGED <<connVars, sockets, promise, completed, protocol, calm>>

-----------------------------------------------------------------------------
(* The connection. *)

\* close_socket: the pool entry is found by key, whoever's it is.
CloseSocket(c) ==
  /\ sockets' = [sockets EXCEPT ![StoreKey] = Nil]
  /\ sock' = [sock EXCEPT ![c] = "closed"]

\* Slip: a set_secure that sets the state before it asks SSL
OnConnectedSecure(c) ==
  /\ sock[c] = "connecting"
  /\ sock' = [sock EXCEPT ![c] = "open"]
  /\ IF protocol = "http"
       THEN Write(c, c) /\ UNCHANGED <<tls, secure>>
       ELSE NoWrite /\ tls' = [tls EXCEPT ![c] = "hello"]
            /\ secure' = [secure EXCEPT ![c] = TRUE]
  /\ UNCHANGED <<dnsVars, shape, wire, response, held, spent, sink,
                 sockets, promise, completed, protocol, calm, alive>>

\* The writable callback.  Plain: the request is written.  TLS: the first
\* SSL_do_handshake sends the hello and wants to read.
OnConnected(c) ==
  /\ sock[c] = "connecting"
  /\ sock' = [sock EXCEPT ![c] = "open"]
  /\ IF protocol = "http"
       THEN Write(c, c) /\ UNCHANGED tls
       ELSE NoWrite /\ tls' = [tls EXCEPT ![c] = "hello"]
  /\ UNCHANGED <<dnsVars, secure, shape, wire, response, held, spent, sink,
                 sockets, promise, completed, protocol, calm, alive>>

\* The first SSL_do_handshake cannot send: set_secure closes the socket, and
\* the loop.modify that follows fails its assertion on it.
OnConnectedFails(c) ==
  /\ ~calm
  /\ sock[c] = "connecting" /\ protocol = "https"
  /\ CloseSocket(c)
  /\ alive' = FALSE
  /\ UNCHANGED <<dnsVars, tls, secure, asked, current, shape, wire,
                 response, held, spent, uses, sink, promise, completed,
                 protocol, calm>>

\* Refused, reset or hung up: the loop calls sock.close.  No promise hears
\* of it.
OnError(c) ==
  /\ ~calm
  /\ sock[c] \in {"connecting", "open"}
  /\ CloseSocket(c)
  /\ UNCHANGED <<dnsVars, tls, secure, asked, current, shape, wire,
                 response, held, spent, uses, sink, promise, completed,
                 protocol, calm, alive>>

\* handle_response while INSECURE: the handshake ends and the request goes
\* out.  When the server's flight arrives after SSL_do_handshake wanted to
\* read and before SSL_read, SSL_read ends the handshake instead: the state
\* stays INSECURE until something else makes the socket readable.
OnHandshake(c) ==
  /\ sock[c] = "open" /\ tls[c] = "flight" /\ ~secure[c]
  /\ \/ /\ secure' = [secure EXCEPT ![c] = TRUE]
        /\ tls' = [tls EXCEPT ![c] = "done"]
        /\ Write(c, c)
     \/ /\ ~calm
        /\ tls' = [tls EXCEPT ![c] = "late"]
        /\ NoWrite /\ UNCHANGED secure
  /\ UNCHANGED <<dnsVars, sock, shape, wire, response, held, spent, sink,
                 sockets, promise, completed, protocol, calm, alive>>

\* The handshake fails: set_secure closes and frees, and handle_response
\* goes on to SSL_read of what was freed.
OnHandshakeFails(c) ==
  /\ ~calm
  /\ sock[c] = "open" /\ tls[c] = "flight" /\ ~secure[c]
  /\ CloseSocket(c)
  /\ alive' \in BOOLEAN
  /\ UNCHANGED <<dnsVars, tls, secure, asked, current, shape, wire,
                 response, held, spent, uses, sink, promise, completed,
                 protocol, calm>>

-----------------------------------------------------------------------------
(* handle_response with the headers or bytes of the body. *)

\* on_complete, and the connection is kept.
Complete(c, body) ==
  /\ sockets' = [sockets EXCEPT ![StoreKey] = c]
  /\ completed' = completed \cup
       {[conn |-> c, request |-> current[c], use |-> uses[c],
         chunked |-> shape[c].chunked, units |-> shape[c].units, body |-> body]}
  /\ UNCHANGED sock

Nothing == UNCHANGED <<sockets, completed, sock>>

\* The number of units that a read begins with.
Leading(ts) ==
  {k \in 0..Len(ts) :
     /\ \A i \in 1..k : ts[i].t = "unit"
     /\ k < Len(ts) => ts[k + 1].t # "unit"}

\* pico.decode_chunked.  It stops after the "0 CRLF" and returns what is
\* left over: nothing is an error to its caller.  A decoder that has come to
\* the end before takes the next line for the last one, a unit's too.
OnChunks(c, ts, got) ==
  LET last == \E i \in 1..Len(ts) : ts[i].t = "last"
      ends == IF spent[c] THEN ts # <<T("cr")>> ELSE last
      left == IF spent[c] THEN ts \notin {<<T("last")>>, <<T("lf")>>, <<T("cr"), T("lf")>>}
              ELSE ts[Len(ts)].t # "last"
  IN  \E k \in IF spent[c] THEN {0} ELSE Leading(ts) :
        LET body == got \o SubSeq(ts, 1, k) IN
        /\ sink' = [sink EXCEPT ![c] = body]
        /\ spent' = [spent EXCEPT ![c] = @ \/ last]
        /\ \/ ~ends /\ Nothing
           \/ ends /\ left /\ Complete(c, body)
           \/ ends /\ ~left /\ CloseSocket(c) /\ UNCHANGED completed

\* Slip: a body is complete as soon as it is long enough by one
OnLengthEarly(c, ts, got, r) ==
  LET body == got \o ts IN
  /\ sink' = [sink EXCEPT ![c] = body]
  /\ IF r.body_bytes + Len(ts) + 1 >= r.content_length
       THEN Complete(c, body) ELSE Nothing
  /\ UNCHANGED spent

\* Without chunks the body ends when it is as long as content_length: never,
\* if that is 0.
OnLength(c, ts, got, r) ==
  LET body == got \o ts IN
  /\ sink' = [sink EXCEPT ![c] = body]
  /\ IF r.body_bytes + Len(ts) = r.content_length
       THEN Complete(c, body) ELSE Nothing
  /\ UNCHANGED spent

\* Slip: what comes with the headers is taken for the next response's
OnHeadersOnly(c, ts) ==
  LET all == held[c] \o ts IN
  /\ IF Len(all) >= 2
       THEN /\ promise' = [promise EXCEPT ![c] = IF @ = "pending" THEN current[c] ELSE @]
            /\ response' = [response EXCEPT ![c] =
                 [headers_done |-> TRUE, chunked |-> shape[c].chunked,
                  content_length |-> IF shape[c].chunked THEN 0 ELSE shape[c].units,
                  body_bytes |-> 0]]
            /\ held' = [held EXCEPT ![c] = <<>>]
            /\ sink' = [sink EXCEPT ![c] = <<>>]
       ELSE /\ held' = [held EXCEPT ![c] = all]
            /\ UNCHANGED <<promise, response, sink>>
  /\ UNCHANGED <<spent, sock, sockets, completed>>

\* Bytes too few to be told from the beginning of a status line
LineEnds(s) == \A i \in 1..Len(s) : s[i].t \in {"last", "cr", "lf"}

\* The callback of the connection runs: the promise of its first fetch is
\* resolved, once, and new handlers collect from nothing.  What a chunked
\* body left is held until more comes, and then is no status line.
OnHeaders(c, ts) ==
  LET all  == held[c] \o ts
      head == SubSeq(Headers, 1, IF Len(all) < 2 THEN Len(all) ELSE 2)
      rest == SubSeq(all, 3, Len(all))
      r    == [headers_done |-> TRUE, chunked |-> shape[c].chunked,
               content_length |-> IF shape[c].chunked THEN 0 ELSE shape[c].units,
               body_bytes |-> Len(rest)]
  IN  \/ /\ SubSeq(all, 1, Len(head)) # head         \* parsed = -1
         /\ ~LineEnds(all)
         /\ CloseSocket(c)
         /\ UNCHANGED <<response, held, sink, spent, promise, completed>>
      \/ /\ all = <<T("h1")>> \/ LineEnds(all)          \* parsed = -2
         /\ held' = [held EXCEPT ![c] = all]
         /\ Nothing /\ UNCHANGED <<response, sink, spent, promise>>
      \/ /\ Len(all) >= 2 /\ SubSeq(all, 1, 2) = head
         /\ promise' = [promise EXCEPT ![c] = IF @ = "pending" THEN current[c] ELSE @]
         /\ response' = [response EXCEPT ![c] = r]
         /\ held' = [held EXCEPT ![c] = <<>>]
         /\ IF rest = <<>>
              THEN /\ Nothing /\ UNCHANGED spent
                   /\ sink' = [sink EXCEPT ![c] = <<>>]
              ELSE IF r.chunked THEN OnChunks(c, rest, <<>>)
              ELSE OnLength(c, rest, <<>>, [r EXCEPT !.body_bytes = 0])

OnBody(c, ts) ==
  /\ response' = [response EXCEPT ![c].body_bytes = @ + Len(ts)]
  /\ IF response[c].chunked THEN OnChunks(c, ts, sink[c])
     ELSE OnLength(c, ts, sink[c], response[c])
  /\ UNCHANGED <<held, promise>>

\* What recv or SSL_read returns is any part of what is there.
OnReadable(c) ==
  /\ sock[c] = "open"
  /\ protocol = "https" => secure[c]
  /\ \E n \in 1..Len(wire[c]) :
       LET ts == SubSeq(wire[c], 1, n) IN
       /\ wire' = [wire EXCEPT ![c] = SubSeq(@, n + 1, Len(@))]
       /\ IF response[c].headers_done THEN OnBody(c, ts) ELSE OnHeaders(c, ts)
  /\ UNCHANGED <<dnsVars, tls, secure, asked, current, shape, uses,
                 protocol, calm, alive>>

-----------------------------------------------------------------------------
(* The servers and the network.  What reaches a closed socket is lost.  A  *)
(* server that hangs up is one that answers no more: the client does       *)
(* nothing at the end of a stream, and the loop calls it again and again.  *)

ServerStep == UNCHANGED <<sock, secure, current, response, held, spent, uses,
                          sink, sockets, promise, completed, protocol, calm, alive>>

AnswerQuery(f) ==
  /\ \E a \in IF calm THEN {"address"} ELSE Dns!Answers,
        n \in IF calm THEN {1} ELSE 0..MaxCopies :
       Dns!Serve(f, a, n)
  /\ UNCHANGED <<tls, asked, shape, wire>> /\ ServerStep

\* The server's part of the handshake; after one that ended late, a ticket.
Flight(c) ==
  /\ sock[c] = "open" /\ tls[c] \in {"hello", "late"}
  /\ tls' = [tls EXCEPT ![c] = "flight"]
  /\ UNCHANGED <<dnsVars, asked, shape, wire>> /\ ServerStep

Respond(c) ==
  /\ sock[c] = "open" /\ asked[c] # Nil
  /\ \E s \in Shape :
       /\ calm => ~s.chunked /\ s.units > 0
       /\ shape' = [shape EXCEPT ![c] = s]
       /\ wire' = [wire EXCEPT ![c] = @ \o Tokens(asked[c], s)]
  /\ asked' = [asked EXCEPT ![c] = Nil]
  /\ UNCHANGED <<dnsVars, tls>> /\ ServerStep

-----------------------------------------------------------------------------

Client(f) ==
  alive /\ (OnAnswer(f) \/ OnConnected(f) \/ OnHandshake(f) \/ OnReadable(f))

Server(f) == alive /\ (AnswerQuery(f) \/ Flight(f) \/ Respond(f))

Failure(f) ==
  alive /\ (OnConnectedFails(f) \/ OnError(f) \/ OnHandshakeFails(f))

\* The caller fetches no more, or waits for what does not come.
Idle == UNCHANGED vars

Next ==
  \/ \E f \in Fetches : alive /\ Start(f)
  \/ \E f \in Fetches : Client(f) \/ Server(f) \/ Failure(f)
  \/ Idle

\* The loop delivers events, and where nothing fails the servers answer.
Spec == Init /\ [][Next]_vars
FairSpec ==
  Spec /\ \A f \in Fetches : WF_vars(Client(f)) /\ WF_vars(calm /\ Server(f))

-----------------------------------------------------------------------------
(* Properties. *)

TypeOK ==
  /\ Dns!TypeOK
  /\ sock \in [Fetches -> {"none", "connecting", "open", "closed"}]
  /\ tls \in [Fetches -> {"off", "hello", "flight", "late", "done"}]
  /\ \A c \in Fetches : secure[c] => protocol = "https" /\ tls[c] = "done"
  /\ asked \in [Fetches -> Fetches \cup {Nil}]
  /\ current \in [Fetches -> Fetches \cup {Nil}]
  /\ shape \in [Fetches -> Shape]
  /\ \A c \in Fetches : held[c] = <<T("h1")>> \/ LineEnds(held[c])
  /\ \A c \in Fetches : response[c].content_length \in 0..MaxUnits
  /\ sockets \in [Keys -> Fetches \cup {Nil}]
  /\ promise \in [Fetches -> Fetches \cup {"pending", "rejected"}]
  /\ alive \in BOOLEAN

LookupsSpeakOnce == Dns!OneVoice

\* A caller gets its own answer, whole: a fetch is resolved by the response
\* to its own request, and a body that is reported complete is the body the
\* server sent, however the stream was cut and however connections were
\* kept.  The exception is a second chunked response on a connection, whose
\* decoder is at an end before it begins.
AnswersReachTheirFetch ==
  /\ \A f \in Fetches : promise[f] \in {"pending", "rejected", f}
  /\ \A d \in completed :
       ~(d.chunked /\ d.use > 1) => d.body = Body(d.request, d.units)

\* http_get writes to a pooled connection without a look at it: it must be
\* open, have nothing under way, and nothing of its last response unread but
\* the end of a line.  The same exception.
PooledIsIdle ==
  \A k \in Keys :
    LET c == sockets[k] IN
    c # Nil /\ ~(shape[c].chunked /\ uses[c] > 1) =>
      /\ sock[c] = "open"
      /\ asked[c] = Nil
      /\ wire[c] \in {<<>>, <<T("lf")>>}

\* When nothing fails, and bodies have a length, a fetch that got a
\* connection of its own completes.
CalmFetchCompletes ==
  \A f \in Fetches :
    calm /\ sock[f] = "connecting"
      ~> \E d \in completed : d.conn = f /\ d.request = f
=============================================================================
