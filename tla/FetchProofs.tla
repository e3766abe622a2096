---------------------------- MODULE FetchProofs -----------------------------
(***************************************************************************)
(* Proofs about Fetch, and about the lookups of Dns in it, for any number  *)
(* of fetches, copies of datagrams and units of a body.                    *)
(*                                                                         *)
(* What makes answers reach their fetch is an account of every byte: at    *)
(* any time what a connection has taken in of a response, followed by what *)
(* is still on the wire, is the response, and before its headers there is  *)
(* nothing that could be taken for headers.                                *)
(***************************************************************************)
EXTENDS Fetch, SequenceTheorems, TLAPS

Marks == {"h1", "h2", "last", "cr", "lf"}
Token == [t : Marks] \cup [t : {"unit"}, of : Fetches, at : Nat]

ResponseType == [headers_done : BOOLEAN, chunked : BOOLEAN,
                 content_length : 0..MaxUnits, body_bytes : Nat]

\* What is held between two reads
Part == {h \in Seq(Token) : h = <<T("h1")>> \/ LineEnds(h)}

Types ==
  /\ sock \in [Fetches -> {"none", "connecting", "open", "closed"}]
  /\ tls \in [Fetches -> {"off", "hello", "flight", "late", "done"}]
  /\ secure \in [Fetches -> BOOLEAN]
  /\ asked \in [Fetches -> Fetches \cup {Nil}]
  /\ current \in [Fetches -> Fetches \cup {Nil}]
  /\ shape \in [Fetches -> Shape]
  /\ wire \in [Fetches -> Seq(Token)]
  /\ response \in [Fetches -> ResponseType]
  /\ held \in [Fetches -> Part]
  /\ spent \in [Fetches -> BOOLEAN]
  /\ uses \in [Fetches -> Nat]
  /\ sink \in [Fetches -> Seq(Token)]
  /\ sockets \in [Keys -> Fetches \cup {Nil}]
  /\ promise \in [Fetches -> Fetches \cup {"pending", "rejected"}]
  /\ protocol \in {"http", "https"}
  /\ calm \in BOOLEAN
  /\ alive \in BOOLEAN

(* A lookup: before its socket there is nothing, its answer comes after    *)
(* its query, and while the socket is open nothing but errors was told.    *)
LookupInv ==
  /\ Dns!TypeOK
  /\ \A l \in Fetches :
       /\ node[l] = "none" => ~query[l] /\ answer[l] = "none"
       /\ query[l] => node[l] = "open" /\ told[l] = <<>> /\ answer[l] = "none"
       /\ answer[l] = "none" => copies[l] = 0
       /\ node[l] = "open" => \A i \in 1..Len(told[l]) : told[l][i] = "error"
  /\ Dns!OneVoice

(* A connection is opened when an address is told.                         *)
ConnectInv == \A c \in Fetches : sock[c] # "none" => told[c] = <<"ip">>

(* Before the first request.                                               *)
EarlyInv(c) ==
  /\ current[c] = Nil =>
       /\ asked[c] = Nil /\ wire[c] = <<>> /\ held[c] = <<>>
       /\ response[c] = NewResponse
       /\ ~spent[c] /\ uses[c] = 0
  /\ sock[c] \in {"none", "connecting"} =>
       current[c] = Nil /\ tls[c] = "off" /\ ~secure[c]
  /\ protocol = "https" /\ ~secure[c] => current[c] = Nil
  /\ protocol = "http" => tls[c] = "off"
  /\ secure[c] => protocol = "https" /\ tls[c] = "done"

Headerless(s) == \A i \in 1..Len(s) : s[i].t \notin {"h1", "h2"}
UnitsOnly(s)  == \A i \in 1..Len(s) : s[i].t = "unit"
HasLast(s)    == \E i \in 1..Len(s) : s[i].t = "last"

(* The account of a response: on its way, its headers not all read, or in  *)
(* its body.  For a second chunked response only what matters to the next  *)
(* request is kept: that no headers are on the wire.                       *)
AskedInv(c) ==
  asked[c] # Nil =>
    /\ asked[c] = current[c]
    /\ ~response[c].headers_done
    /\ Headerless(held[c])
    /\ Headerless(wire[c])

HeadersInv(c) ==
  asked[c] = Nil /\ ~response[c].headers_done =>
    \E junk \in Seq(Token) :
      /\ Headerless(junk)
      /\ held[c] \o wire[c] = junk \o Tokens(current[c], shape[c])
      /\ junk = <<>> \/ Headerless(held[c])

Body3(c) == Body(current[c], shape[c].units)

BodyInv(c) ==
  response[c].headers_done =>
    /\ response[c].chunked = shape[c].chunked
    /\ held[c] = <<>>
    /\ Headerless(wire[c])
    /\ ~shape[c].chunked =>
         /\ response[c].content_length = shape[c].units
         /\ response[c].body_bytes = Len(sink[c])
         /\ sink[c] \o wire[c] = Body3(c)
    /\ shape[c].chunked /\ uses[c] = 1 =>
         \/ /\ ~spent[c]
            /\ UnitsOnly(sink[c])
            /\ sink[c] \o wire[c] = Payload(current[c], shape[c])
         \/ /\ spent[c]
            /\ sink[c] = Body3(c)
            /\ wire[c] \in {<<>>, <<T("lf")>>}

StreamInv(c) ==
  current[c] # Nil /\ sock[c] = "open" =>
    /\ uses[c] >= 1
    /\ ~response[c].headers_done /\ uses[c] = 1 => ~spent[c]
    /\ AskedInv(c)
    /\ HeadersInv(c)
    /\ BodyInv(c)

(* Whose answer it is.                                                     *)
PromiseInv(c) ==
  /\ promise[c] \in {"pending", "rejected", c}
  /\ promise[c] = "pending" =>
       current[c] \in {Nil, c} /\ ~response[c].headers_done

ConnInv(c) == EarlyInv(c) /\ StreamInv(c) /\ PromiseInv(c)

(* Only the key that is stored under is ever occupied, by a connection that *)
(* has read the headers of its last response and is idle.                  *)
Poolable(c) ==
  /\ sock[c] = "open"
  /\ current[c] # Nil
  /\ response[c].headers_done
  /\ IF shape[c].chunked THEN spent[c] ELSE wire[c] = <<>>
  /\ ~(shape[c].chunked /\ uses[c] > 1) =>
       asked[c] = Nil /\ wire[c] \in {<<>>, <<T("lf")>>}

PoolInv ==
  \A k \in Keys : sockets[k] # Nil => k = StoreKey /\ Poolable(sockets[k])

CompletedInv ==
  \A d \in completed :
    ~(d.chunked /\ d.use > 1) => d.body = Body(d.request, d.units)

IInv ==
  /\ Types
  /\ LookupInv
  /\ ConnectInv
  /\ \A c \in Fetches : ConnInv(c)
  /\ PoolInv
  /\ CompletedInv

-----------------------------------------------------------------------------
(* Sequences. *)

\* What a read takes and leaves.
LEMMA ReadSplits ==
  ASSUME NEW S, NEW w \in Seq(S), NEW n \in 1..Len(w)
  PROVE  /\ SubSeq(w, 1, n) \in Seq(S) /\ Len(SubSeq(w, 1, n)) = n
         /\ SubSeq(w, n + 1, Len(w)) \in Seq(S)
         /\ SubSeq(w, 1, n) \o SubSeq(w, n + 1, Len(w)) = w
         /\ Len(SubSeq(w, n + 1, Len(w))) = Len(w) - n
<1>1. /\ Len(w) \in Nat /\ n \in Int /\ Len(w) \in Int /\ n + 1 \in Int
      /\ \A i \in 1..Len(w) : w[i] \in S
  BY LenProperties, ElementOfSeq
<1>2. SubSeq(w, 1, n) \in Seq(S) /\ Len(SubSeq(w, 1, n)) = n
  BY <1>1, SubSeqProperties
<1>3. SubSeq(w, n + 1, Len(w)) \in Seq(S) /\ Len(SubSeq(w, n + 1, Len(w))) = Len(w) - n
  BY <1>1, SubSeqProperties
<1>4. SubSeq(w, 1, n) \o SubSeq(w, n + 1, Len(w)) = SubSeq(w, 1, Len(w))
  BY <1>1, ConcatAdjacentSubSeq
<1> QED
  BY <1>2, <1>3, <1>4, SubSeqFull

\* Two ways to cut one sequence, and the first part of one is the longer.
TwoCuts(a, b, h, p) ==
  /\ a \in Seq(Token) /\ b \in Seq(Token) /\ h \in Seq(Token) /\ p \in Seq(Token)
  /\ a \o b = h \o p /\ Len(a) >= Len(h)

\* The longer first part is the shorter one and something that the second
\* part begins with.
LEMMA CutLater ==
  ASSUME NEW a, NEW b, NEW h, NEW p, TwoCuts(a, b, h, p)
  PROVE  /\ SubSeq(a, 1, Len(h)) = h
         /\ SubSeq(a, Len(h) + 1, Len(a)) \in Seq(Token)
         /\ SubSeq(a, Len(h) + 1, Len(a)) \o b = p
         /\ Len(SubSeq(a, Len(h) + 1, Len(a))) = Len(a) - Len(h)
<1> USE DEF TwoCuts
<1>0. \A i \in 1..Len(a) + Len(b) :
        (a \o b)[i] = IF i <= Len(a) THEN a[i] ELSE b[i - Len(a)]
  BY ConcatProperties
<1>1. /\ Len(a) \in Nat /\ Len(b) \in Nat /\ Len(h) \in Nat /\ Len(p) \in Nat
      /\ Len(a) + Len(b) = Len(h) + Len(p)
  BY LenProperties, ConcatProperties
<1>2. /\ \A i \in 1..Len(a) : a[i] \in Token
      /\ \A i \in 1..Len(h) : h[i] \in Token /\ (h \o p)[i] = h[i]
      /\ \A i \in 1..Len(a) : (a \o b)[i] = a[i]
  BY <1>1, ConcatProperties, ElementOfSeq
<1>3. SubSeq(a, 1, Len(h)) = h
  <2>1. /\ SubSeq(a, 1, Len(h)) \in Seq(Token)
        /\ Len(SubSeq(a, 1, Len(h))) = Len(h)
        /\ \A i \in 1..Len(h) : SubSeq(a, 1, Len(h))[i] = a[i]
    BY <1>1, <1>2, SubSeqProperties
  <2>2. \A i \in 1..Len(h) : a[i] = h[i]
    BY <1>1, <1>2
  <2> QED
    BY <2>1, <2>2, SeqEqual
<1> DEFINE r == SubSeq(a, Len(h) + 1, Len(a))
<1>4. /\ r \in Seq(Token) /\ Len(r) = Len(a) - Len(h)
      /\ \A i \in 1..Len(r) : r[i] = a[Len(h) + i]
  BY <1>1, <1>2, SubSeqProperties
<1> HIDE DEF r
<1>5. r \o b = p
  <2>1. /\ r \o b \in Seq(Token) /\ Len(r \o b) = Len(p)
        /\ \A i \in 1..Len(p) :
             (r \o b)[i] = IF i <= Len(r) THEN r[i] ELSE b[i - Len(r)]
    BY <1>1, <1>4, ConcatProperties
  <2>2. ASSUME NEW i \in 1..Len(p) PROVE (r \o b)[i] = p[i]
    <3>1. Len(h) + i \in 1..Len(h) + Len(p) /\ Len(h) + i > Len(h)
      BY <1>1
    <3>2. p[i] = (h \o p)[Len(h) + i]
      <4>1. ~(Len(h) + i <= Len(h)) /\ Len(h) + i - Len(h) = i
        BY <3>1, <1>1
      <4>2. (h \o p)[Len(h) + i] = IF Len(h) + i <= Len(h) THEN h[Len(h) + i]
                                   ELSE p[Len(h) + i - Len(h)]
        BY <3>1, ConcatProperties
      <4> QED
        BY <4>1, <4>2, Zenon
    <3>3. (a \o b)[Len(h) + i] = IF Len(h) + i <= Len(a) THEN a[Len(h) + i]
                                 ELSE b[Len(h) + i - Len(a)]
      <4>1. Len(h) + i \in 1..Len(a) + Len(b)
        BY <3>1, <1>1
      <4> QED
        BY <4>1, <1>0, SMT
    <3>4. i - Len(r) = Len(h) + i - Len(a)
      BY <1>1, <1>4
    <3>5. i <= Len(r) <=> Len(h) + i <= Len(a)
      BY <1>1, <1>4
    <3>6. i <= Len(r) => r[i] = a[Len(h) + i]
      BY <1>1, <1>4
    <3> QED
      BY <2>1, <3>2, <3>3, <3>4, <3>5, <3>6
  <2> QED
    BY <2>1, <2>2, SeqEqual
<1> QED
  BY <1>3, <1>4, <1>5 DEF r

\* A first part as long as the whole is the whole.
LEMMA CutAtEnd ==
  ASSUME NEW a \in Seq(Token), NEW b \in Seq(Token), NEW p \in Seq(Token),
         a \o b = p, Len(a) = Len(p)
  PROVE  a = p /\ b = <<>>
<1>1. Len(a) \in Nat /\ Len(b) \in Nat /\ Len(p) = Len(a) + Len(b)
  BY LenProperties, ConcatProperties
<1>2. b = <<>>
  BY <1>1, EmptySeq
<1> QED
  BY <1>2, ConcatEmptySeq

\* Where the elements of a concatenation are.
LEMMA ConcatAt ==
  ASSUME NEW S, NEW a \in Seq(S), NEW b \in Seq(S)
  PROVE  /\ a \o b \in Seq(S)
         /\ Len(a \o b) = Len(a) + Len(b)
         /\ \A i \in 1..Len(a) : (a \o b)[i] = a[i]
         /\ \A i \in 1..Len(b) : (a \o b)[Len(a) + i] = b[i]
<1>1. /\ Len(a) \in Nat /\ Len(b) \in Nat
      /\ a \o b \in Seq(S) /\ Len(a \o b) = Len(a) + Len(b)
  BY LenProperties, ConcatProperties
<1>2. \A i \in 1..Len(a) + Len(b) :
        (a \o b)[i] = IF i <= Len(a) THEN a[i] ELSE b[i - Len(a)]
  BY ConcatProperties, Zenon
<1>3. ASSUME NEW i \in 1..Len(a) PROVE (a \o b)[i] = a[i]
  <2>1. i \in 1..Len(a) + Len(b) /\ i <= Len(a)
    BY <1>1
  <2> QED
    BY <2>1, <1>2, Zenon
<1>4. ASSUME NEW i \in 1..Len(b) PROVE (a \o b)[Len(a) + i] = b[i]
  <2>1. /\ Len(a) + i \in 1..Len(a) + Len(b) /\ ~(Len(a) + i <= Len(a))
        /\ Len(a) + i - Len(a) = i
    BY <1>1
  <2> DEFINE j == Len(a) + i
             c == a \o b
  <2>2. j \in 1..Len(a) + Len(b) /\ ~(j <= Len(a)) /\ j - Len(a) = i
    BY <2>1
  <2>3. \A h \in 1..Len(a) + Len(b) :
          c[h] = IF h <= Len(a) THEN a[h] ELSE b[h - Len(a)]
    BY <1>2
  <2>4. c[j] = b[i]
    <3> HIDE DEF j, c
    <3> QED
      BY <2>2, <2>3
  <2> QED
    BY <2>4
<1> QED
  BY <1>1, <1>3, <1>4

LEMMA HeaderlessParts ==
  ASSUME NEW a \in Seq(Token), NEW b \in Seq(Token)
  PROVE  Headerless(a \o b) <=> Headerless(a) /\ Headerless(b)
<1>1. /\ Len(a) \in Nat /\ Len(b) \in Nat /\ Len(a \o b) = Len(a) + Len(b)
      /\ \A i \in 1..Len(a) + Len(b) :
           (a \o b)[i] = IF i <= Len(a) THEN a[i] ELSE b[i - Len(a)]
  BY LenProperties, ConcatProperties
<1>2. \A i \in 1..Len(b) : (a \o b)[i + Len(a)] = b[i] /\ i + Len(a) \in 1..Len(a \o b)
  BY <1>1
<1>3. \A i \in 1..Len(a) : (a \o b)[i] = a[i] /\ i \in 1..Len(a \o b)
  BY <1>1
<1>4. \A i \in 1..Len(a \o b) :
        \/ i \in 1..Len(a) /\ (a \o b)[i] = a[i]
        \/ i - Len(a) \in 1..Len(b) /\ (a \o b)[i] = b[i - Len(a)]
  BY <1>1
<1> QED
  BY <1>2, <1>3, <1>4 DEF Headerless

-----------------------------------------------------------------------------
(* Responses. *)

LEMMA BodyTyped ==
  ASSUME NEW f \in Fetches, NEW n \in Nat
  PROVE  /\ Body(f, n) \in Seq(Token) /\ Len(Body(f, n)) = n
         /\ \A i \in 1..n : Body(f, n)[i].t = "unit"
         /\ \A i \in 1..n : Body(f, n)[i] = [t |-> "unit", of |-> f, at |-> i]
  BY DEF Body, Token

Trailer == <<T("last"), T("cr"), T("lf")>>

LEMMA MarksTyped ==
  /\ Headers \in Seq(Token) /\ Len(Headers) = 2
  /\ Headers[1].t = "h1" /\ Headers[2].t = "h2"
  /\ Trailer \in Seq(Token) /\ Len(Trailer) = 3
  /\ Trailer[1].t = "last" /\ Trailer[2].t = "cr" /\ Trailer[3].t = "lf"
  /\ <<T("h1")>> \in Seq(Token) /\ Len(<<T("h1")>>) = 1 /\ <<T("h1")>>[1].t = "h1"
  /\ <<>> \in Seq(Token)
<1>1. \A x \in Marks : T(x) \in Token /\ T(x).t = x
  BY DEF T, Token
<1> QED
  BY <1>1 DEF Headers, Trailer, Marks

LEMMA PartTyped ==
  /\ \A h \in Part : h \in Seq(Token)
  /\ <<>> \in Part /\ Headerless(<<>>) /\ <<T("h1")>> \in Part
  /\ \A h \in Seq(Token) : LineEnds(h) => h \in Part /\ Headerless(h)
<1>1. Headerless(<<>>) /\ LineEnds(<<>>)
  BY DEF Headerless, LineEnds
<1>2. \A h \in Seq(Token) : LineEnds(h) => Headerless(h)
  BY DEF Headerless, LineEnds
<1> QED
  BY <1>1, <1>2, MarksTyped DEF Part

LEMMA PayloadTyped ==
  ASSUME NEW f \in Fetches, NEW s \in Shape
  PROVE  /\ s.units \in Nat
         /\ Payload(f, s) \in Seq(Token)
         /\ Tokens(f, s) \in Seq(Token)
         /\ Headerless(Payload(f, s))
         /\ ~s.chunked => Payload(f, s) = Body(f, s.units)
         /\ s.chunked =>
              /\ Len(Payload(f, s)) = s.units + 3
              /\ \A i \in 1..s.units : Payload(f, s)[i] = Body(f, s.units)[i]
              /\ Payload(f, s)[s.units + 1].t = "last"
              /\ Payload(f, s)[s.units + 2].t = "cr"
              /\ Payload(f, s)[s.units + 3] = T("lf")
<1>1. s.units \in Nat
  BY FetchAssumption DEF FetchAssumption, Shape
<1> DEFINE b == Body(f, s.units)
<1>2. /\ b \in Seq(Token) /\ Len(b) = s.units
      /\ \A i \in 1..s.units : b[i].t = "unit"
  BY <1>1, BodyTyped
<1> HIDE DEF b
<1>3. CASE s.chunked
  <2>1. Payload(f, s) = b \o Trailer
    BY <1>3 DEF Payload, Trailer, b
  <2>a. Trailer \in Seq(Token) /\ Len(Trailer) = 3
    BY MarksTyped
  <2> HIDE DEF Trailer
  <2>b. /\ b \o Trailer \in Seq(Token)
        /\ Len(b \o Trailer) = Len(b) + Len(Trailer)
        /\ \A i \in 1..Len(b) + Len(Trailer) :
             (b \o Trailer)[i] = IF i <= Len(b) THEN b[i] ELSE Trailer[i - Len(b)]
    BY <2>a, <1>2, ConcatProperties, Zenon
  <2>2. /\ Payload(f, s) \in Seq(Token)
        /\ Len(Payload(f, s)) = s.units + 3
    BY <2>1, <2>a, <2>b, <1>2
  <2>3. \A i \in 1..s.units + 3 :
          Payload(f, s)[i] = IF i <= s.units THEN b[i] ELSE Trailer[i - s.units]
    BY <2>1, <2>a, <2>b, <1>2
  <2>4. /\ \A i \in 1..s.units : Payload(f, s)[i] = b[i]
        /\ Payload(f, s)[s.units + 1] = Trailer[1]
        /\ Payload(f, s)[s.units + 2] = Trailer[2]
        /\ Payload(f, s)[s.units + 3] = Trailer[3]
    BY <1>1, <2>3
  <2>5. Headerless(b) /\ Headerless(Trailer)
    <3>1. \A i \in 1..3 : Trailer[i].t \notin {"h1", "h2"}
      BY MarksTyped
    <3> QED
      BY <3>1, <1>2, MarksTyped DEF Headerless
  <2>6. Headerless(Payload(f, s))
    BY <2>1, <2>5, <1>2, MarksTyped, HeaderlessParts
  <2>7. Trailer[3] = T("lf")
    BY DEF Trailer
  <2>8. Tokens(f, s) \in Seq(Token)
    BY <2>2, MarksTyped, ConcatProperties DEF Tokens
  <2> QED
    BY <1>1, <1>3, <2>2, <2>4, <2>6, <2>7, <2>8, MarksTyped DEF b
<1>4. CASE ~s.chunked
  <2>1. Payload(f, s) = b \o <<>>
    BY <1>4 DEF Payload, b
  <2>2. Payload(f, s) = b
    BY <2>1, <1>2, ConcatEmptySeq
  <2>3. Headerless(b)
    BY <1>2 DEF Headerless
  <2>4. Tokens(f, s) \in Seq(Token)
    BY <2>2, <1>2, MarksTyped, ConcatProperties DEF Tokens
  <2> QED
    BY <1>1, <1>2, <1>4, <2>2, <2>3, <2>4 DEF b
<1> QED
  BY <1>3, <1>4

\* A read ts of what is left of a chunked response after got.
ChunkRead(f, s, got, ts, rest, k) ==
  /\ f \in Fetches /\ s \in Shape /\ s.chunked
  /\ got \in Seq(Token) /\ ts \in Seq(Token) /\ rest \in Seq(Token)
  /\ UnitsOnly(got)
  /\ (got \o ts) \o rest = Payload(f, s)
  /\ k \in Leading(ts)

\* Before "last" it is units, and with "last" the body is whole; if the line
\* is not at its end, at most its end is left.
ChunkResult(f, s, got, ts, rest, body) ==
  /\ ~HasLast(ts) => body = got \o ts /\ UnitsOnly(body)
  /\ HasLast(ts) =>
       /\ body = Body(f, s.units)
       /\ ts[Len(ts)].t # "last" => rest \in {<<>>, <<T("lf")>>}

LEMMA ChunksRead ==
  ASSUME NEW f, NEW s, NEW got, NEW ts, NEW rest, NEW k, NEW body,
         ChunkRead(f, s, got, ts, rest, k), body = got \o SubSeq(ts, 1, k)
  PROVE  ChunkResult(f, s, got, ts, rest, body)
<1>0. /\ f \in Fetches /\ s \in Shape /\ s.chunked
      /\ got \in Seq(Token) /\ ts \in Seq(Token) /\ rest \in Seq(Token)
      /\ UnitsOnly(got)
      /\ (got \o ts) \o rest = Payload(f, s)
      /\ k \in Leading(ts)
  BY DEF ChunkRead
<1> USE <1>0
<1> DEFINE p == Payload(f, s)
           n == s.units
           g == Len(got)
           m == Len(ts)
<1>1. /\ n \in Nat /\ g \in Nat /\ m \in Nat /\ Len(rest) \in Nat
      /\ k \in 0..m
  <2>1. n \in Nat
    BY PayloadTyped, Zenon
  <2>2. g \in Nat /\ m \in Nat /\ Len(rest) \in Nat
    BY LenProperties, Zenon
  <2> QED
    BY <2>1, <2>2 DEF Leading
<1>2. /\ p \in Seq(Token) /\ Len(p) = n + 3
      /\ \A i \in 1..n : p[i] = Body(f, n)[i] /\ p[i].t = "unit"
      /\ p[n + 1].t = "last" /\ p[n + 2].t = "cr" /\ p[n + 3] = T("lf")
  <2>1. \A i \in 1..n : Body(f, n)[i].t = "unit"
    BY <1>1, BodyTyped, Zenon
  <2>2. /\ p \in Seq(Token) /\ Len(p) = n + 3
        /\ \A i \in 1..n : p[i] = Body(f, n)[i]
        /\ p[n + 1].t = "last" /\ p[n + 2].t = "cr" /\ p[n + 3] = T("lf")
    BY PayloadTyped, Zenon
  <2> QED
    BY <2>1, <2>2, Zenon
<1>3. /\ got \o ts \in Seq(Token) /\ Len(got \o ts) = g + m
      /\ \A i \in 1..g : (got \o ts)[i] = got[i]
      /\ \A i \in 1..m : (got \o ts)[g + i] = ts[i]
  BY ConcatAt
<1> DEFINE q == got \o ts
<1>4. /\ q \o rest = p
      /\ Len(q \o rest) = Len(q) + Len(rest)
      /\ \A i \in 1..Len(q) : (q \o rest)[i] = q[i]
      /\ \A i \in 1..Len(rest) : (q \o rest)[Len(q) + i] = rest[i]
  <2>1. q \in Seq(Token)
    BY <1>3
  <2>2. q \o rest = p
    OBVIOUS
  <2> HIDE DEF q, p
  <2> QED
    BY <2>1, <2>2, ConcatAt
<1>5. /\ \A i \in 1..g : got[i].t = "unit"
      /\ Len(q) = g + m
      /\ \A i \in 1..g : q[i] = got[i]
      /\ \A i \in 1..m : q[g + i] = ts[i]
  BY <1>3, Zenon DEF UnitsOnly
<1> HIDE DEF p, n, g, m, q
<1>6. /\ g + m + Len(rest) = n + 3
      /\ \A i \in 1..g : p[i] = got[i] /\ p[i].t = "unit"
      /\ \A i \in 1..m : p[g + i] = ts[i]
      /\ \A i \in 1..Len(rest) : p[g + m + i] = rest[i]
  <2>1. Len(p) = Len(q) + Len(rest)
    BY <1>4, Zenon
  <2>2. ASSUME NEW i \in 1..g PROVE p[i] = got[i] /\ p[i].t = "unit"
    <3>1. i \in 1..Len(q)
      BY <1>1, <1>5
    <3> QED
      BY <3>1, <1>4, <1>5, Zenon
  <2>3. ASSUME NEW i \in 1..m PROVE p[g + i] = ts[i]
    <3>1. g + i \in 1..Len(q)
      BY <1>1, <1>5
    <3> QED
      BY <3>1, <1>4, <1>5, Zenon
  <2>4. \A i \in 1..Len(rest) : p[g + m + i] = rest[i]
    BY <1>4, <1>5, Zenon
  <2>5. g + m + Len(rest) = n + 3
    BY <2>1, <1>1, <1>2, <1>5
  <2> QED
    BY <2>2, <2>3, <2>4, <2>5, Zenon
<1>7. g <= n
  <2>1. ASSUME g > n PROVE FALSE
    <3>1. n + 1 \in 1..g
      BY <2>1, <1>1
    <3>2. p[n + 1].t = "unit"
      BY <3>1, <1>6, Zenon
    <3> QED
      BY <3>2, <1>2
  <2> QED
    BY <2>1, <1>1
<1>8. /\ \A i \in 1..k : ts[i].t = "unit"
      /\ k < m => ts[k + 1].t # "unit"
  BY DEF Leading, m
<1>9. k = IF g + m <= n THEN m ELSE n - g
  <2>1. CASE g + m <= n
    <3>1. ASSUME k < m PROVE FALSE
      <4>1. g + (k + 1) \in 1..n /\ k + 1 \in 1..m
        BY <3>1, <2>1, <1>1
      <4> QED
        BY <4>1, <3>1, <1>2, <1>6, <1>8
    <3> QED
      BY <3>1, <2>1, <1>1
  <2>2. CASE g + m > n
    <3>1. ASSUME k > n - g PROVE FALSE
      <4>1. n + 1 - g \in 1..k /\ n + 1 - g \in 1..m /\ g + (n + 1 - g) = n + 1
        BY <3>1, <2>2, <1>1, <1>7
      <4>2. p[n + 1] = ts[n + 1 - g]
        BY <4>1, <1>6
      <4> QED
        BY <4>1, <4>2, <1>2, <1>8
    <3>2. ASSUME k < n - g PROVE FALSE
      <4>1. k < m /\ k + 1 \in 1..m /\ g + (k + 1) \in 1..n
        BY <3>2, <2>2, <1>1
      <4> QED
        BY <4>1, <1>2, <1>6, <1>8
    <3> QED
      BY <3>1, <3>2, <2>2, <1>1, <1>7
  <2> QED
    BY <2>1, <2>2, <1>1
<1>10. /\ SubSeq(ts, 1, k) \in Seq(Token) /\ Len(SubSeq(ts, 1, k)) = k
       /\ \A i \in 1..k : SubSeq(ts, 1, k)[i] = ts[i]
  <2>1. \A i \in 1..k : ts[i] \in Token
    BY <1>1, ElementOfSeq DEF m
  <2> QED
    BY <2>1, <1>1, SubSeqProperties
<1>11. /\ body \in Seq(Token) /\ Len(body) = g + k
       /\ \A i \in 1..g : body[i] = got[i]
       /\ \A i \in 1..k : body[g + i] = ts[i]
  <2> DEFINE b == SubSeq(ts, 1, k)
  <2>1. /\ b \in Seq(Token) /\ Len(b) = k
        /\ \A i \in 1..k : b[i] = ts[i]
    BY <1>10
  <2>2. body = got \o b
    OBVIOUS
  <2> HIDE DEF b
  <2>3. /\ got \o b \in Seq(Token) /\ Len(got \o b) = g + Len(b)
        /\ \A i \in 1..g : (got \o b)[i] = got[i]
        /\ \A i \in 1..Len(b) : (got \o b)[g + i] = b[i]
    <3>1. /\ got \o b \in Seq(Token) /\ Len(got \o b) = Len(got) + Len(b)
          /\ \A i \in 1..Len(got) : (got \o b)[i] = got[i]
          /\ \A i \in 1..Len(b) : (got \o b)[Len(got) + i] = b[i]
      <4>1. b \in Seq(Token)
        BY <2>1
      <4> QED
        BY <4>1, ConcatAt
    <3> QED
      BY <3>1, Zenon DEF g
  <2>4. /\ body \in Seq(Token) /\ Len(body) = g + Len(b)
        /\ \A i \in 1..g : body[i] = got[i]
        /\ \A i \in 1..Len(b) : body[g + i] = b[i]
    <3> DEFINE c == got \o b
    <3>1. body = c
      BY <2>2
    <3>2. /\ c \in Seq(Token) /\ Len(c) = g + Len(b)
          /\ \A i \in 1..g : c[i] = got[i]
          /\ \A i \in 1..Len(b) : c[g + i] = b[i]
      BY <2>3
    <3> HIDE DEF c
    <3> QED
      BY <3>1, <3>2
  <2>5. \A i \in 1..k : body[g + i] = ts[i]
    BY <2>1, <2>4, Zenon
  <2> QED
    BY <2>1, <2>4, <2>5, Zenon
<1>12. \A i \in 1..g + k : body[i] = p[i]
  <2>1. ASSUME NEW i \in 1..g + k PROVE body[i] = p[i]
    <3>1. CASE i \in 1..g
      BY <3>1, <1>6, <1>11, Zenon
    <3>2. CASE i > g
      <4>1. i - g \in 1..k /\ i - g \in 1..m /\ g + (i - g) = i
        BY <3>2, <1>1
      <4> QED
        <5>1. body[g + (i - g)] = ts[i - g] /\ p[g + (i - g)] = ts[i - g]
          BY <4>1, <1>6, <1>11, Zenon
        <5> QED
          BY <4>1, <5>1, Zenon
    <3>3. i \in 1..g \/ i > g
      BY <1>1
    <3> QED
      BY <3>1, <3>2, <3>3, Zenon
  <2> QED
    BY <2>1
<1>13. ASSUME \A i \in 1..m : ts[i].t # "last"
       PROVE  body = got \o ts /\ \A i \in 1..Len(body) : body[i].t = "unit"
  <2>1. g + m <= n
    <3>1. ASSUME g + m > n PROVE FALSE
      <4>1. n + 1 - g \in 1..m /\ g + (n + 1 - g) = n + 1
        BY <3>1, <1>1, <1>7
      <4>2. p[n + 1] = ts[n + 1 - g]
        BY <4>1, <1>6, Zenon
      <4> QED
        BY <4>1, <4>2, <1>2, <1>13, Zenon
    <3> QED
      BY <3>1, <1>1
  <2>2. k = m
    BY <2>1, <1>9
  <2>3. SubSeq(ts, 1, k) = ts
    BY <2>2, SubSeqFull DEF m
  <2>4. \A i \in 1..Len(body) : i \in 1..n /\ i \in 1..g + k
    BY <2>1, <2>2, <1>1, <1>11
  <2>5. \A i \in 1..Len(body) : body[i].t = "unit"
    BY <2>4, <1>2, <1>12, Zenon
  <2> QED
    BY <2>3, <2>5
<1>14. ASSUME NEW j \in 1..m, ts[j].t = "last"
       PROVE  /\ body = Body(f, n)
              /\ ts[m].t # "last" => rest \in {<<>>, <<T("lf")>>}
  <2>1. g + j \in Nat /\ p[g + j].t = "last"
    BY <1>1, <1>6, <1>14
  <2>2. g + j > n
    <3>1. ASSUME g + j <= n PROVE FALSE
      <4>1. g + j \in 1..n
        BY <3>1, <1>1
      <4> QED
        BY <4>1, <2>1, <1>2
    <3> QED
      BY <3>1, <1>1
  <2>3. k = n - g /\ g + m > n
    BY <2>2, <1>1, <1>9
  <2>4. body = Body(f, n)
    <3>1. Body(f, n) \in Seq(Token) /\ Len(Body(f, n)) = n
      BY <1>1, BodyTyped
    <3>2. Len(body) = n /\ g + k = n
      BY <2>3, <1>1, <1>7, <1>11
    <3>3. \A i \in 1..Len(body) : body[i] = Body(f, n)[i]
      BY <3>2, <1>2, <1>12, Zenon
    <3> QED
      BY <3>1, <3>2, <3>3, <1>11, SeqEqual, Zenon
  <2>5. ASSUME ts[m].t # "last" PROVE rest \in {<<>>, <<T("lf")>>}
    <3>1. g + m # n + 1
      <4>1. m \in 1..m
        BY <1>1
      <4>2. p[g + m] = ts[m]
        BY <4>1, <1>6, Zenon
      <4> QED
        BY <4>2, <2>5, <1>2, Zenon
    <3>2. Len(rest) \in {0, 1}
      <4> DEFINE r == Len(rest)
      <4>1. r \in Nat /\ g + m + r = n + 3 /\ g + m > n /\ g + m # n + 1
        BY <3>1, <2>3, <1>1, <1>6
      <4> HIDE DEF r
      <4>2. r = 0 \/ r = 1
        BY <4>1, <1>1
      <4> QED
        BY <4>2 DEF r
    <3>3. CASE Len(rest) = 0
      BY <3>3, EmptySeq
    <3>4. CASE Len(rest) = 1
      <4>1. 1 \in 1..Len(rest) /\ g + m + 1 = n + 3
        BY <3>4, <1>1, <1>6
      <4>2. rest[1] = p[n + 3]
        BY <4>1, <1>6, Zenon
      <4>3. rest[1] = T("lf")
        BY <4>2, <1>2, Zenon
      <4> DEFINE e == T("lf")
      <4>4. rest = <<e>>
        <5> HIDE DEF e
        <5>1. rest \in Seq(Token) /\ Len(rest) = 1 /\ rest[1] = e
          BY <4>3, <3>4 DEF e
        <5> QED
          BY <5>1
      <4> QED
        BY <4>4
    <3> QED
      BY <3>2, <3>3, <3>4
  <2> QED
    BY <2>4, <2>5
<1>15. (\E i \in 1..m : ts[i].t = "last")
         => /\ body = Body(f, n)
            /\ ts[m].t # "last" => rest \in {<<>>, <<T("lf")>>}
  BY <1>14, Zenon
<1> QED
  BY <1>13, <1>15, Zenon DEF n, m, UnitsOnly, HasLast, ChunkResult

-----------------------------------------------------------------------------
(* Lookups. *)

\* What a lookup tells when it tells an address, and when an error.
LEMMA Telling ==
  ASSUME NEW s \in Seq({"ip", "error"}), NEW what \in {"ip", "error"}
  PROVE  /\ Append(s, what) \in Seq({"ip", "error"})
         /\ Append(s, what) # <<>>
         /\ s = <<>> => Append(s, what) = <<what>>
         /\ (\A i \in 1..Len(s) : s[i] = "error") =>
              \A i \in 1..Len(Append(s, "error")) : Append(s, "error")[i] = "error"
<1>1. /\ Append(s, what) \in Seq({"ip", "error"})
      /\ Append(s, what) # <<>>
  BY AppendProperties
<1>2. s = <<>> => Append(s, what) = <<what>>
  OBVIOUS
<1> DEFINE r == Append(s, "error")
<1>3. /\ Len(r) = Len(s) + 1 /\ r[Len(s) + 1] = "error" /\ Len(s) \in Nat
      /\ \A i \in 1..Len(s) : r[i] = s[i]
  BY AppendProperties, LenProperties
<1>4. ASSUME \A i \in 1..Len(s) : s[i] = "error", NEW i \in 1..Len(r)
      PROVE  r[i] = "error"
  <2> HIDE DEF r
  <2>1. i \in 1..Len(s) \/ i = Len(s) + 1
    BY <1>3
  <2> QED
    BY <2>1, <1>3, <1>4
<1> QED
  BY <1>1, <1>2, <1>4

\* An action of lookup f that tells what it tells, from open or from fresh.
LEMMA FreshTells ==
  ASSUME LookupInv, NEW f \in Fetches, NEW what \in {"ip", "error"},
         Dns!Fresh(f), Dns!Tell(f, what),
         node'[f] \in {"none", "closed"},
         node' = [node EXCEPT ![f] = node'[f]],
         UNCHANGED <<query, answer, copies>>
  PROVE  LookupInv' /\ told[f] = <<>> /\ told' = [told EXCEPT ![f] = <<what>>]
<1>1. /\ told \in [Fetches -> Seq({"ip", "error"})]
      /\ told[f] = <<>> /\ node[f] = "none" /\ ~query[f]
      /\ told' = [told EXCEPT ![f] = Append(told[f], what)]
  BY DEF LookupInv, Dns!TypeOK, Dns!Fresh, Dns!Tell
<1>2. Append(told[f], what) = <<what>> /\ <<what>> \in Seq({"ip", "error"})
  BY <1>1, Telling
<1>3. told' = [told EXCEPT ![f] = <<what>>] /\ told'[f] = <<what>>
  BY <1>1, <1>2
<1>4. Dns!TypeOK'
  <2>1. told' \in [Fetches -> Seq({"ip", "error"})]
    BY <1>1, <1>2, <1>3
  <2>2. node' \in [Fetches -> {"none", "open", "closed"}]
    <3>1. node \in [Fetches -> {"none", "open", "closed"}]
      BY DEF LookupInv, Dns!TypeOK
    <3> QED
      BY <3>1
  <2> QED
    BY <2>1, <2>2 DEF LookupInv, Dns!TypeOK
<1>5. Dns!OneVoice'
  <2>1. \A i, j \in 1..Len(<<what>>) : i = 1 /\ j = 1
    OBVIOUS
  <2> QED
    BY <2>1, <1>1, <1>3 DEF LookupInv, Dns!TypeOK, Dns!OneVoice
<1>6. node'[f] # "open" /\ answer[f] = "none" /\ copies[f] = 0
  BY <1>1 DEF LookupInv
<1>7. \A l \in Fetches \ {f} : told'[l] = told[l] /\ node'[l] = node[l]
  BY <1>1 DEF LookupInv, Dns!TypeOK
<1> QED
  BY <1>1, <1>3, <1>4, <1>5, <1>6, <1>7 DEF LookupInv

LEMMA SendKeeps ==
  ASSUME LookupInv, NEW f \in Fetches, Dns!Send(f)
  PROVE  LookupInv'
BY DEF LookupInv, Dns!TypeOK, Dns!OneVoice, Dns!Send, Dns!Fresh

LEMMA ServeKeeps ==
  ASSUME LookupInv, NEW f \in Fetches, NEW a \in Dns!Answers,
         NEW n \in 0..MaxCopies, Dns!Serve(f, a, n)
  PROVE  LookupInv'
BY DEF LookupInv, Dns!TypeOK, Dns!OneVoice, Dns!Serve, Dns!Answers

LEMMA SucceedsKeeps ==
  ASSUME LookupInv, NEW f \in Fetches, Dns!Succeeds(f)
  PROVE  LookupInv' /\ told[f] = <<>> /\ told' = [told EXCEPT ![f] = <<"ip">>]
<1>1. /\ told \in [Fetches -> Seq({"ip", "error"})]
      /\ told[f] = <<>> /\ copies[f] \in 1..MaxCopies /\ ~query[f]
      /\ told' = [told EXCEPT ![f] = Append(told[f], "ip")]
  BY DEF LookupInv, Dns!TypeOK, Dns!OneVoice, Dns!Succeeds, Dns!Arrives, Dns!Tell
<1>2. Append(told[f], "ip") = <<"ip">> /\ <<"ip">> \in Seq({"ip", "error"})
  BY <1>1, Telling
<1>3. told' = [told EXCEPT ![f] = <<"ip">>] /\ told'[f] = <<"ip">>
  BY <1>1, <1>2
<1>4. Dns!TypeOK'
  BY <1>1, <1>2, <1>3, FetchAssumption
     DEF LookupInv, Dns!TypeOK, Dns!Succeeds, Dns!Arrives, FetchAssumption
<1>5. Dns!OneVoice'
  <2>1. \A i, j \in 1..Len(<<"ip">>) : i = 1 /\ j = 1
    OBVIOUS
  <2> QED
    BY <2>1, <1>1, <1>3 DEF LookupInv, Dns!TypeOK, Dns!OneVoice, Dns!Succeeds, Dns!Arrives
<1> QED
  BY <1>1, <1>3, <1>4, <1>5 DEF LookupInv, Dns!TypeOK, Dns!Succeeds, Dns!Arrives

LEMMA FailsKeeps ==
  ASSUME LookupInv, NEW f \in Fetches, Dns!Fails(f)
  PROVE  /\ LookupInv' /\ told[f] # <<"ip">>
         /\ \A l \in Fetches \ {f} : told'[l] = told[l]
<1>1. /\ told \in [Fetches -> Seq({"ip", "error"})]
      /\ copies[f] \in 1..MaxCopies /\ ~query[f] /\ node[f] = "open"
      /\ \A i \in 1..Len(told[f]) : told[f][i] = "error"
      /\ told' = [told EXCEPT ![f] = Append(told[f], "error")]
  BY DEF LookupInv, Dns!TypeOK, Dns!OneVoice, Dns!Fails, Dns!Arrives, Dns!Tell
<1> DEFINE r == Append(told[f], "error")
<1>2. /\ r \in Seq({"ip", "error"}) /\ \A i \in 1..Len(r) : r[i] = "error"
  BY <1>1, Telling
<1>3. told' = [told EXCEPT ![f] = r] /\ told'[f] = r
  BY <1>1
<1>4. told[f] # <<"ip">>
  BY <1>1
<1> HIDE DEF r
<1>5. Dns!TypeOK'
  BY <1>1, <1>2, <1>3, FetchAssumption
     DEF LookupInv, Dns!TypeOK, Dns!Fails, Dns!Arrives, FetchAssumption
<1>6. Dns!OneVoice'
  BY <1>1, <1>2, <1>3 DEF LookupInv, Dns!TypeOK, Dns!OneVoice, Dns!Fails, Dns!Arrives
<1>7. \A l \in Fetches \ {f} :
        told'[l] = told[l] /\ copies'[l] = copies[l]
  BY <1>1 DEF LookupInv, Dns!TypeOK, Dns!Fails, Dns!Arrives
<1>8. UNCHANGED <<node, query, answer>> /\ answer[f] = "empty"
  BY DEF Dns!Fails, Dns!Arrives
<1> QED
  BY <1>1, <1>2, <1>3, <1>4, <1>5, <1>6, <1>7, <1>8 DEF LookupInv

LEMMA ThrowsKeeps ==
  ASSUME LookupInv, NEW f \in Fetches, Dns!Throws(f)
  PROVE  LookupInv'
BY FetchAssumption
   DEF LookupInv, Dns!TypeOK, Dns!OneVoice, Dns!Throws, Dns!Arrives, FetchAssumption

-----------------------------------------------------------------------------
(* Steps of one connection. *)

OthersSame(c) ==
  /\ \A d \in Fetches \ {c} :
       /\ sock'[d] = sock[d] /\ tls'[d] = tls[d] /\ secure'[d] = secure[d]
       /\ asked'[d] = asked[d] /\ current'[d] = current[d]
       /\ shape'[d] = shape[d] /\ wire'[d] = wire[d]
       /\ response'[d] = response[d] /\ held'[d] = held[d]
       /\ spent'[d] = spent[d] /\ uses'[d] = uses[d] /\ sink'[d] = sink[d]
       /\ promise'[d] = promise[d]
  /\ protocol' = protocol

LEMMA ConnFrame ==
  ASSUME NEW c \in Fetches, OthersSame(c), NEW d \in Fetches \ {c}
  PROVE  /\ ConnInv(d) => ConnInv(d)'
         /\ Poolable(d) => Poolable(d)'
<1>1. EarlyInv(d) => EarlyInv(d)'
  BY DEF OthersSame, EarlyInv
<1>2. AskedInv(d) => AskedInv(d)'
  BY DEF OthersSame, AskedInv
<1>3. HeadersInv(d) => HeadersInv(d)'
  BY DEF OthersSame, HeadersInv
<1>4. BodyInv(d) => BodyInv(d)'
  BY DEF OthersSame, BodyInv, Body3
<1>5. StreamInv(d) => StreamInv(d)'
  BY <1>2, <1>3, <1>4 DEF OthersSame, StreamInv
<1>6. PromiseInv(d) => PromiseInv(d)'
  BY DEF OthersSame, PromiseInv
<1>7. Poolable(d) => Poolable(d)'
  BY DEF OthersSame, Poolable
<1> QED
  BY <1>1, <1>5, <1>6, <1>7 DEF ConnInv

\* At most c enters the pool, and c is fit for it if it is in it.
PoolStep(c) ==
  \A k \in Keys :
    /\ \/ sockets'[k] \in {sockets[k], Nil}
       \/ k = StoreKey /\ sockets'[k] = c
    /\ sockets'[k] = c => Poolable(c)'

LEMMA StepOf ==
  ASSUME IInv, NEW c \in Fetches, OthersSame(c), Types', LookupInv', ConnectInv',
         ConnInv(c)', CompletedInv', PoolStep(c)
  PROVE  IInv'
<1>1. ASSUME NEW d \in Fetches PROVE ConnInv(d)'
  BY <1>1, ConnFrame DEF IInv
<1>2. ASSUME NEW k \in Keys, NEW e \in Fetches, sockets'[k] = e
      PROVE  k = StoreKey /\ Poolable(e)'
  <2>1. CASE e = c
    <3>1. k = StoreKey
      BY <1>2, <2>1, FetchAssumption DEF IInv, PoolInv, PoolStep, FetchAssumption
    <3> QED
      BY <1>2, <2>1, <3>1 DEF PoolStep
  <2>2. CASE e # c
    <3>1. sockets[k] = e /\ e # Nil
      BY <1>2, <2>2, FetchAssumption DEF PoolStep, FetchAssumption
    <3>2. k = StoreKey /\ Poolable(e)
      BY <3>1 DEF IInv, PoolInv
    <3> QED
      BY <2>2, <3>2, ConnFrame
  <2> QED
    BY <2>1, <2>2
<1>3. PoolInv'
  <2>1. StoreKey' = StoreKey
    BY DEF OthersSame, StoreKey
  <2>2. \A k \in Keys : sockets'[k] # Nil => sockets'[k] \in Fetches
    BY DEF Types
  <2> QED
    BY <1>2, <2>1, <2>2 DEF PoolInv, Poolable
<1> QED
  BY <1>1, <1>3 DEF IInv

\* Steps that are no lookup's.
LEMMA LookupsFrame ==
  ASSUME IInv, UNCHANGED dnsVars,
         \A d \in Fetches : sock'[d] # "none" => sock[d] # "none"
  PROVE  LookupInv' /\ ConnectInv'
<1>1. LookupInv'
  <2>1. LookupInv /\ UNCHANGED <<node, query, answer, copies, told>>
    BY DEF IInv, dnsVars
  <2>2. Dns!TypeOK' /\ Dns!OneVoice'
    BY <2>1 DEF LookupInv, Dns!TypeOK, Dns!OneVoice
  <2> QED
    BY <2>1, <2>2 DEF LookupInv
<1>2. ConnectInv'
  BY DEF IInv, dnsVars, ConnectInv
<1> QED
  BY <1>1, <1>2

-----------------------------------------------------------------------------
(* Actions of lookups. *)

LEMMA IpRecorded ==
  ASSUME IInv, NEW f \in Fetches, LookupInv',
         told[f] = <<>>, told' = [told EXCEPT ![f] = <<"ip">>],
         OnRecord(f, "ip"), UNCHANGED alive
  PROVE  IInv'
<1>1. sock[f] = "none" /\ told'[f] = <<"ip">>
  <2>1. told \in [Fetches -> Seq({"ip", "error"})]
    BY DEF IInv, LookupInv, Dns!TypeOK
  <2>2. <<"ip">> # <<>>
    OBVIOUS
  <2>3. sock[f] = "none"
    BY <2>2 DEF IInv, ConnectInv
  <2> QED
    BY <2>1, <2>3
<1>2. \A d \in Fetches \ {f} : told'[d] = told[d]
  BY DEF IInv, LookupInv, Dns!TypeOK
<1>3. /\ UNCHANGED <<promise, tls, secure, shape, wire, held, spent, sink,
                     completed, protocol, calm, alive>>
      /\ Connect(f) \/ Reuse(f)
  BY DEF OnRecord
<1>4. CompletedInv'
  BY <1>3 DEF IInv, CompletedInv
<1>5. CASE Connect(f)
  <2>1. /\ sock' = [sock EXCEPT ![f] = "connecting"]
        /\ UNCHANGED <<response, sockets, asked, current, uses>>
    BY <1>5 DEF Connect, NoWrite
  <2>2. OthersSame(f)
    BY <1>3, <2>1 DEF OthersSame, IInv, Types
  <2>3. Types'
    BY <1>3, <2>1 DEF IInv, Types
  <2>4. ConnectInv'
    BY <1>1, <1>2, <2>1 DEF IInv, ConnectInv, Types
  <2>5. current[f] = Nil /\ sock'[f] = "connecting" /\ tls[f] = "off" /\ ~secure[f]
    BY <1>1, <2>1 DEF IInv, ConnInv, EarlyInv, Types
  <2>6. ConnInv(f)'
    <3>1. EarlyInv(f)'
      BY <1>3, <2>1, <2>5 DEF IInv, ConnInv, EarlyInv
    <3>2. StreamInv(f)'
      BY <2>5 DEF StreamInv
    <3>3. PromiseInv(f)'
      BY <1>3, <2>1 DEF IInv, ConnInv, PromiseInv
    <3> QED
      BY <3>1, <3>2, <3>3 DEF ConnInv
  <2>7. \A k \in Keys : sockets'[k] = sockets[k] /\ sockets'[k] # f
    BY <2>1, <2>5, FetchAssumption
       DEF IInv, PoolInv, Poolable, FetchAssumption
  <2>8. PoolStep(f)
    BY <2>7 DEF PoolStep
  <2> QED
    BY <2>2, <2>3, <2>4, <2>6, <2>8, <1>4, StepOf
<1>6. CASE Reuse(f)
  <2>1. PICK c \in Fetches :
          /\ sockets["ip"] = c
          /\ asked' = [asked EXCEPT ![c] = f]
          /\ current' = [current EXCEPT ![c] = f]
          /\ uses' = [uses EXCEPT ![c] = uses[c] + 1]
          /\ response' = [response EXCEPT ![c] = NewResponse]
          /\ sockets' = [sockets EXCEPT !["ip"] = Nil]
          /\ UNCHANGED sock
    <3>1. sockets["ip"] \in Fetches
      BY <1>6 DEF Reuse, IInv, Types, Keys
    <3> QED
      BY <1>6, <3>1 DEF Reuse, Write
  <2>2. /\ "ip" = StoreKey /\ Poolable(c)
    BY <2>1, FetchAssumption DEF IInv, PoolInv, Keys, FetchAssumption
  <2>3. OthersSame(c)
    BY <1>3, <2>1 DEF OthersSame, IInv, Types
  <2>4. NewResponse \in ResponseType /\ ~NewResponse.headers_done
    BY FetchAssumption DEF NewResponse, ResponseType, FetchAssumption
  <2>5. Types'
    <3>1. uses[c] + 1 \in Nat
      BY DEF IInv, Types
    <3>2. /\ asked' \in [Fetches -> Fetches \cup {Nil}]
          /\ current' \in [Fetches -> Fetches \cup {Nil}]
      BY <2>1 DEF IInv, Types
    <3>3. uses' \in [Fetches -> Nat]
      BY <2>1, <3>1 DEF IInv, Types
    <3>4. response' \in [Fetches -> ResponseType]
      BY <2>1, <2>4 DEF IInv, Types
    <3>5. sockets' \in [Keys -> Fetches \cup {Nil}]
      BY <2>1 DEF IInv, Types
    <3> QED
      BY <1>3, <2>1, <3>2, <3>3, <3>4, <3>5 DEF IInv, Types
  <2>6. ConnectInv'
    BY <1>1, <1>2, <2>1 DEF IInv, ConnectInv
  <2>7. /\ sock[c] = "open" /\ current[c] # Nil /\ response[c].headers_done
        /\ ConnInv(c)
    BY <2>2 DEF Poolable, IInv
  <2>8. Headerless(wire[c]) /\ held[c] = <<>> /\ uses[c] >= 1 /\ uses[c] \in Nat
    BY <2>7 DEF ConnInv, StreamInv, BodyInv, IInv, Types
  <2>9. /\ asked'[c] = f /\ current'[c] = f /\ uses'[c] = uses[c] + 1
        /\ response'[c] = NewResponse /\ f # Nil
    BY <2>1, FetchAssumption DEF IInv, Types, FetchAssumption
  <2>10. EarlyInv(c)'
    BY <1>3, <2>1, <2>7, <2>9 DEF ConnInv, EarlyInv
  <2>11. StreamInv(c)'
    <3>1. AskedInv(c)'
      BY <1>3, <2>4, <2>8, <2>9, PartTyped DEF AskedInv
    <3>2. HeadersInv(c)' /\ BodyInv(c)'
      BY <2>4, <2>9 DEF HeadersInv, BodyInv
    <3> QED
      BY <3>1, <3>2, <2>8, <2>9 DEF StreamInv
  <2>12. PromiseInv(c)'
    BY <1>3, <2>7 DEF ConnInv, PromiseInv
  <2>13. \A k \in Keys : sockets'[k] = Nil
    BY <2>1, <2>2 DEF IInv, PoolInv, Types
  <2>14. c # Nil
    BY FetchAssumption DEF FetchAssumption
  <2>15. PoolStep(c)
    BY <2>13, <2>14 DEF PoolStep
  <2>16. ConnInv(c)'
    BY <2>10, <2>11, <2>12 DEF ConnInv
  <2> QED
    BY <2>3, <2>5, <2>6, <2>15, <2>16, <1>4, StepOf
<1> QED
  BY <1>3, <1>5, <1>6

LEMMA ErrorRecorded ==
  ASSUME IInv, NEW f \in Fetches, LookupInv', told[f] # <<"ip">>,
         \A d \in Fetches \ {f} : told'[d] = told[d],
         OnRecord(f, "error"), UNCHANGED alive
  PROVE  IInv'
<1>1. /\ UNCHANGED <<connVars, sockets, completed, protocol, calm, alive>>
      /\ promise' = [promise EXCEPT ![f] =
                       IF promise[f] = "pending" THEN "rejected" ELSE promise[f]]
  BY DEF OnRecord, NoWrite, connVars
<1>2. OthersSame(f) /\ Types'
  BY <1>1 DEF connVars, OthersSame, IInv, Types
<1>3. ConnectInv'
  BY <1>1 DEF connVars, IInv, ConnectInv
<1>4. ConnInv(f)'
  <2>1. EarlyInv(f)' /\ Poolable(f)' = Poolable(f)
    BY <1>1 DEF connVars, IInv, ConnInv, EarlyInv, Poolable
  <2>2. StreamInv(f)'
    BY <1>1 DEF connVars, IInv, ConnInv, StreamInv, AskedInv, HeadersInv, BodyInv, Body3
  <2>3. PromiseInv(f)'
    <3>1. promise'[f] = IF promise[f] = "pending" THEN "rejected" ELSE promise[f]
      BY <1>1 DEF IInv, Types
    <3> QED
      BY <1>1, <3>1 DEF connVars, IInv, ConnInv, PromiseInv
  <2> QED
    BY <2>1, <2>2, <2>3 DEF ConnInv
<1>5. \A k \in Keys : sockets'[k] = sockets[k] /\ (sockets[k] = f => Poolable(f)')
  <2>1. Poolable(f) => Poolable(f)'
    BY <1>1 DEF connVars, Poolable
  <2> QED
    BY <1>1, <2>1, FetchAssumption DEF IInv, PoolInv, FetchAssumption
<1>6. CompletedInv'
  BY <1>1 DEF IInv, CompletedInv
<1>7. PoolStep(f)
  BY <1>5 DEF PoolStep
<1> QED
  BY <1>2, <1>3, <1>4, <1>6, <1>7, StepOf

\* Steps that touch no connection.
LEMMA ConnsFrame ==
  ASSUME IInv, LookupInv', told' = told, alive' \in BOOLEAN,
         UNCHANGED <<connVars, sockets, promise, completed, protocol, calm>>
  PROVE  IInv'
<1>1. Types' /\ ConnectInv' /\ PoolInv' /\ CompletedInv'
  BY DEF connVars, IInv, Types, ConnectInv, PoolInv, Poolable, StoreKey, CompletedInv
<1>2. ASSUME NEW c \in Fetches PROVE ConnInv(c)'
  <2>1. ConnInv(c)
    BY DEF IInv
  <2> QED
    BY <2>1 DEF connVars, ConnInv, EarlyInv, StreamInv, AskedInv, HeadersInv,
       BodyInv, Body3, PromiseInv
<1> QED
  BY <1>1, <1>2 DEF IInv

LEMMA StartKeeps ==
  ASSUME IInv, NEW f \in Fetches, Start(f)
  PROVE  IInv'
<1>1. CASE Dns!FoundInHosts(f) /\ OnRecord(f, "ip") /\ UNCHANGED alive
  <2>1. /\ Dns!Fresh(f) /\ Dns!Tell(f, "ip") /\ UNCHANGED <<node, query, answer, copies>>
    BY <1>1 DEF Dns!FoundInHosts
  <2>2. node'[f] = "none" /\ node' = [node EXCEPT ![f] = node'[f]]
    BY <2>1 DEF Dns!Fresh, IInv, LookupInv, Dns!TypeOK
  <2>3. LookupInv' /\ told[f] = <<>> /\ told' = [told EXCEPT ![f] = <<"ip">>]
    BY <2>1, <2>2, FreshTells DEF IInv
  <2> QED
    BY <1>1, <2>3, IpRecorded
<1>2. CASE /\ Dns!Send(f)
           /\ UNCHANGED <<connVars, sockets, promise, completed, protocol, calm, alive>>
  <2>1. LookupInv' /\ told' = told
    BY <1>2, SendKeeps DEF IInv, Dns!Send
  <2>2. alive' \in BOOLEAN
    BY <1>2 DEF IInv, Types
  <2> QED
    BY <1>2, <2>1, <2>2, ConnsFrame
<1>3. CASE Dns!SendFails(f) /\ OnRecord(f, "error") /\ UNCHANGED alive
  <2>1. /\ Dns!Fresh(f) /\ Dns!Tell(f, "error") /\ UNCHANGED <<query, answer, copies>>
        /\ node' = [node EXCEPT ![f] = "closed"]
    BY <1>3 DEF Dns!SendFails
  <2>2. node'[f] = "closed" /\ node' = [node EXCEPT ![f] = node'[f]]
    BY <2>1 DEF IInv, LookupInv, Dns!TypeOK
  <2>3. LookupInv' /\ told[f] = <<>> /\ told' = [told EXCEPT ![f] = <<"error">>]
    BY <2>1, <2>2, FreshTells DEF IInv
  <2>4. told[f] # <<"ip">> /\ \A d \in Fetches \ {f} : told'[d] = told[d]
    <3>1. <<"ip">> # <<>>
      OBVIOUS
    <3> QED
      BY <2>3, <3>1 DEF IInv, LookupInv, Dns!TypeOK
  <2> QED
    BY <1>3, <2>3, <2>4, ErrorRecorded
<1> QED
  BY <1>1, <1>2, <1>3 DEF Start

LEMMA OnAnswerKeeps ==
  ASSUME IInv, NEW f \in Fetches, OnAnswer(f)
  PROVE  IInv'
<1>1. CASE Dns!Succeeds(f) /\ OnRecord(f, "ip") /\ UNCHANGED alive
  BY <1>1, SucceedsKeeps, IpRecorded DEF IInv
<1>2. CASE Dns!Fails(f) /\ OnRecord(f, "error") /\ UNCHANGED alive
  BY <1>2, FailsKeeps, ErrorRecorded DEF IInv
<1>3. CASE /\ Dns!Throws(f) /\ alive' = FALSE
           /\ UNCHANGED <<connVars, sockets, promise, completed, protocol, calm>>
  <2>1. LookupInv' /\ told' = told
    BY <1>3, ThrowsKeeps DEF IInv, Dns!Throws
  <2> QED
    BY <1>3, <2>1, ConnsFrame
<1> QED
  BY <1>1, <1>2, <1>3 DEF OnAnswer

LEMMA AnswerQueryKeeps ==
  ASSUME IInv, NEW f \in Fetches, AnswerQuery(f)
  PROVE  IInv'
<1>1. PICK a \in Dns!Answers, n \in 0..MaxCopies : Dns!Serve(f, a, n)
  <2>1. "address" \in Dns!Answers /\ 1 \in 0..MaxCopies
    BY FetchAssumption DEF FetchAssumption, Dns!Answers
  <2> QED
    BY <2>1 DEF AnswerQuery
<1>2. LookupInv' /\ told' = told
  BY <1>1, ServeKeeps DEF IInv, Dns!Serve
<1>3. alive' \in BOOLEAN /\ UNCHANGED <<connVars, sockets, promise, completed, protocol, calm>>
  BY DEF AnswerQuery, ServerStep, connVars, IInv, Types
<1> QED
  BY <1>2, <1>3, ConnsFrame

-----------------------------------------------------------------------------
(* Actions of a connection. *)

\* The request of a fetch on a connection of its own is the first.
LEMMA FirstWrite ==
  ASSUME IInv, NEW c \in Fetches, current[c] = Nil, Write(c, c),
         sock'[c] = "open", UNCHANGED <<wire, held, response, spent, shape>>
  PROVE  /\ asked' = [asked EXCEPT ![c] = c] /\ current' = [current EXCEPT ![c] = c]
         /\ asked'[c] = c /\ current'[c] = c /\ c # Nil
         /\ uses' = [uses EXCEPT ![c] = 1]
         /\ StreamInv(c)'
<1>1. /\ asked[c] = Nil /\ wire[c] = <<>> /\ held[c] = <<>>
      /\ response[c] = NewResponse /\ ~spent[c] /\ uses[c] = 0
  BY DEF IInv, ConnInv, EarlyInv
<1>2. /\ asked' = [asked EXCEPT ![c] = c] /\ current' = [current EXCEPT ![c] = c]
      /\ asked'[c] = c /\ current'[c] = c /\ c # Nil
      /\ uses' = [uses EXCEPT ![c] = 1] /\ uses'[c] = 1
  BY <1>1, FetchAssumption DEF Write, IInv, Types, FetchAssumption
<1>3. ~response'[c].headers_done
  BY <1>1 DEF NewResponse
<1>4. Headerless(<<>>)
  BY DEF Headerless
<1>5. AskedInv(c)'
  BY <1>1, <1>2, <1>3, <1>4 DEF AskedInv
<1>6. HeadersInv(c)' /\ BodyInv(c)'
  BY <1>2, <1>3 DEF HeadersInv, BodyInv
<1>7. StreamInv(c)'
  BY <1>1, <1>2, <1>5, <1>6 DEF StreamInv
<1> QED
  BY <1>2, <1>7

LEMMA OnConnectedKeeps ==
  ASSUME IInv, NEW c \in Fetches, OnConnected(c)
  PROVE  IInv'
<1>1. /\ sock[c] = "connecting" /\ sock' = [sock EXCEPT ![c] = "open"]
      /\ UNCHANGED <<dnsVars, secure, shape, wire, response, held, spent, sink,
                     sockets, promise, completed, protocol, calm, alive>>
  BY DEF OnConnected
<1>2. current[c] = Nil /\ tls[c] = "off" /\ ~secure[c] /\ sock'[c] = "open"
  BY <1>1 DEF IInv, ConnInv, EarlyInv, Types
<1>3. LookupInv' /\ ConnectInv'
  <2>1. \A d \in Fetches : sock'[d] # "none" => sock[d] # "none"
    BY <1>1 DEF IInv, Types
  <2> QED
    BY <1>1, <2>1, LookupsFrame
<1>4. CompletedInv'
  BY <1>1 DEF IInv, CompletedInv
<1>5. PoolStep(c)
  BY <1>1, FetchAssumption DEF PoolStep, IInv, PoolInv, Poolable, FetchAssumption
<1>6. CASE protocol = "http"
  <2>1. Write(c, c) /\ UNCHANGED tls
    BY <1>6 DEF OnConnected
  <2>2. /\ asked' = [asked EXCEPT ![c] = c] /\ current' = [current EXCEPT ![c] = c]
        /\ asked'[c] = c /\ current'[c] = c /\ c # Nil
        /\ uses' = [uses EXCEPT ![c] = 1]
        /\ StreamInv(c)'
    BY <1>1, <1>2, <2>1, FirstWrite
  <2>3. OthersSame(c)
    BY <1>1, <2>1, <2>2 DEF OthersSame, IInv, Types
  <2>4. Types'
    BY <1>1, <2>1, <2>2 DEF IInv, Types
  <2>5. EarlyInv(c)' /\ PromiseInv(c)'
    BY <1>1, <1>2, <1>6, <2>1, <2>2 DEF IInv, ConnInv, EarlyInv, PromiseInv
  <2> QED
    BY <1>3, <1>4, <1>5, <2>2, <2>3, <2>4, <2>5, StepOf DEF ConnInv
<1>7. CASE protocol = "https"
  <2>1. /\ UNCHANGED <<asked, current, uses>> /\ tls' = [tls EXCEPT ![c] = "hello"]
    BY <1>7 DEF OnConnected, NoWrite
  <2>2. OthersSame(c) /\ Types'
    BY <1>1, <2>1 DEF OthersSame, IInv, Types
  <2>3. EarlyInv(c)' /\ PromiseInv(c)' /\ StreamInv(c)'
    BY <1>1, <1>2, <1>7, <2>1 DEF IInv, ConnInv, EarlyInv, PromiseInv, StreamInv
  <2> QED
    BY <1>3, <1>4, <1>5, <2>2, <2>3, StepOf DEF ConnInv
<1> QED
  BY <1>6, <1>7 DEF IInv, Types

\* close_socket: nothing is promised of a closed connection, and the pool
\* holds none.
LEMMA ClosesKeep ==
  ASSUME IInv, NEW c \in Fetches, sock[c] \in {"connecting", "open"},
         CloseSocket(c), alive' \in BOOLEAN,
         UNCHANGED <<dnsVars, tls, secure, asked, current, shape, wire, response,
                     held, spent, uses, sink, promise, completed, protocol, calm>>
  PROVE  IInv'
<1>1. /\ sock' = [sock EXCEPT ![c] = "closed"] /\ sock'[c] = "closed"
      /\ sockets' = [sockets EXCEPT ![StoreKey] = Nil]
  BY DEF CloseSocket, IInv, Types
<1>2. LookupInv' /\ ConnectInv'
  <2>1. \A d \in Fetches : sock'[d] # "none" => sock[d] # "none"
    BY <1>1 DEF IInv, Types
  <2> QED
    BY <2>1, LookupsFrame
<1>3. OthersSame(c) /\ Types'
  BY <1>1 DEF OthersSame, IInv, Types
<1>4. EarlyInv(c)' /\ PromiseInv(c)' /\ StreamInv(c)'
  BY <1>1 DEF IInv, ConnInv, EarlyInv, PromiseInv, StreamInv
<1>5. CompletedInv'
  BY DEF IInv, CompletedInv
<1>6. \A k \in Keys : sockets'[k] = Nil
  BY <1>1 DEF IInv, PoolInv, Types
<1>7. PoolStep(c)
  BY <1>6, FetchAssumption DEF PoolStep, FetchAssumption
<1> QED
  BY <1>2, <1>3, <1>4, <1>5, <1>7, StepOf DEF ConnInv

LEMMA FailureKeeps ==
  ASSUME IInv, NEW c \in Fetches,
         OnConnectedFails(c) \/ OnError(c) \/ OnHandshakeFails(c)
  PROVE  IInv'
<1>1. CASE OnError(c)
  <2>1. alive' \in BOOLEAN
    BY <1>1 DEF OnError, IInv, Types
  <2> QED
    BY <1>1, <2>1, ClosesKeep DEF OnError
<1>2. CASE OnHandshakeFails(c)
  BY <1>2, ClosesKeep DEF OnHandshakeFails
<1>3. CASE OnConnectedFails(c)
  BY <1>3, ClosesKeep DEF OnConnectedFails
<1> QED
  BY <1>1, <1>2, <1>3

LEMMA OnHandshakeKeeps ==
  ASSUME IInv, NEW c \in Fetches, OnHandshake(c)
  PROVE  IInv'
<1>1. /\ sock[c] = "open" /\ tls[c] = "flight" /\ ~secure[c]
      /\ UNCHANGED <<dnsVars, sock, shape, wire, response, held, spent, sink,
                     sockets, promise, completed, protocol, calm, alive>>
  BY DEF OnHandshake
<1>2. protocol = "https" /\ current[c] = Nil
  BY <1>1 DEF IInv, Types, ConnInv, EarlyInv
<1>3. LookupInv' /\ ConnectInv'
  BY <1>1, LookupsFrame
<1>4. CompletedInv'
  BY <1>1 DEF IInv, CompletedInv
<1>5. PoolStep(c)
  BY <1>1, <1>2, FetchAssumption DEF PoolStep, IInv, PoolInv, Poolable, FetchAssumption
<1>6. CASE /\ secure' = [secure EXCEPT ![c] = TRUE]
           /\ tls' = [tls EXCEPT ![c] = "done"]
           /\ Write(c, c)
  <2>1. /\ asked' = [asked EXCEPT ![c] = c] /\ current' = [current EXCEPT ![c] = c]
        /\ asked'[c] = c /\ current'[c] = c /\ c # Nil
        /\ uses' = [uses EXCEPT ![c] = 1]
        /\ StreamInv(c)'
    BY <1>1, <1>2, <1>6, FirstWrite
  <2>2. OthersSame(c)
    BY <1>1, <1>6, <2>1 DEF OthersSame, IInv, Types
  <2>3. Types'
    BY <1>1, <1>6, <2>1 DEF IInv, Types
  <2>4. secure'[c] /\ tls'[c] = "done"
    BY <1>6 DEF IInv, Types
  <2>5. EarlyInv(c)' /\ PromiseInv(c)'
    BY <1>1, <1>2, <2>1, <2>4 DEF IInv, ConnInv, EarlyInv, PromiseInv
  <2> QED
    BY <1>3, <1>4, <1>5, <2>1, <2>2, <2>3, <2>5, StepOf DEF ConnInv
<1>7. CASE tls' = [tls EXCEPT ![c] = "late"] /\ NoWrite /\ UNCHANGED secure
  <2>1. OthersSame(c) /\ Types'
    BY <1>1, <1>7 DEF OthersSame, NoWrite, IInv, Types
  <2>2. EarlyInv(c)' /\ PromiseInv(c)' /\ StreamInv(c)'
    BY <1>1, <1>2, <1>7
       DEF NoWrite, IInv, ConnInv, EarlyInv, PromiseInv, StreamInv
  <2> QED
    BY <1>3, <1>4, <1>5, <2>1, <2>2, StepOf DEF ConnInv
<1> QED
  BY <1>6, <1>7 DEF OnHandshake

LEMMA FlightKeeps ==
  ASSUME IInv, NEW c \in Fetches, Flight(c)
  PROVE  IInv'
<1>1. /\ sock[c] = "open" /\ tls[c] \in {"hello", "late"}
      /\ tls' = [tls EXCEPT ![c] = "flight"]
      /\ UNCHANGED <<dnsVars, asked, shape, wire, sock, secure, current, response,
                     held, spent, uses, sink, sockets, promise, completed,
                     protocol, calm, alive>>
  BY DEF Flight, ServerStep
<1>2. protocol = "https" /\ ~secure[c] /\ current[c] = Nil
  BY <1>1 DEF IInv, Types, ConnInv, EarlyInv
<1>3. LookupInv' /\ ConnectInv'
  BY <1>1, LookupsFrame
<1>4. CompletedInv'
  BY <1>1 DEF IInv, CompletedInv
<1>5. PoolStep(c)
  BY <1>1, <1>2, FetchAssumption DEF PoolStep, IInv, PoolInv, Poolable, FetchAssumption
<1>6. OthersSame(c) /\ Types'
  BY <1>1 DEF OthersSame, IInv, Types
<1>7. EarlyInv(c)' /\ PromiseInv(c)' /\ StreamInv(c)'
  BY <1>1, <1>2 DEF IInv, ConnInv, EarlyInv, PromiseInv, StreamInv
<1> QED
  BY <1>3, <1>4, <1>5, <1>6, <1>7, StepOf DEF ConnInv

\* The response goes behind what is left of the one before.
LEMMA RespondKeeps ==
  ASSUME IInv, NEW c \in Fetches, Respond(c)
  PROVE  IInv'
<1>1. PICK s \in Shape :
        /\ shape' = [shape EXCEPT ![c] = s]
        /\ wire' = [wire EXCEPT ![c] = wire[c] \o Tokens(asked[c], s)]
  BY DEF Respond
<1>2. /\ sock[c] = "open" /\ asked[c] # Nil
      /\ asked' = [asked EXCEPT ![c] = Nil]
      /\ UNCHANGED <<dnsVars, tls, sock, secure, current, response, held, spent, uses,
                     sink, sockets, promise, completed, protocol, calm, alive>>
  BY DEF Respond, ServerStep
<1>3. current[c] # Nil
  BY <1>2 DEF IInv, ConnInv, EarlyInv
<1>4. /\ asked[c] = current[c] /\ current[c] \in Fetches
      /\ ~response[c].headers_done /\ Headerless(held[c]) /\ Headerless(wire[c])
      /\ uses[c] >= 1 /\ (uses[c] = 1 => ~spent[c])
  BY <1>2, <1>3 DEF IInv, ConnInv, StreamInv, AskedInv, Types
<1> DEFINE ts == Tokens(current[c], s)
<1>5. ts \in Seq(Token) /\ wire[c] \in Seq(Token)
  BY <1>4, PayloadTyped DEF IInv, Types
<1> HIDE DEF ts
<1>6. wire[c] \o ts \in Seq(Token)
  BY <1>5, ConcatProperties
<1>7. /\ wire'[c] = wire[c] \o ts /\ shape'[c] = s /\ asked'[c] = Nil
      /\ wire' = [wire EXCEPT ![c] = wire[c] \o ts]
  BY <1>1, <1>2, <1>4 DEF IInv, Types, ts
<1>8. LookupInv' /\ ConnectInv'
  BY <1>2, LookupsFrame
<1>9. CompletedInv'
  BY <1>2 DEF IInv, CompletedInv
<1>10. PoolStep(c)
  BY <1>2, <1>4, FetchAssumption DEF PoolStep, IInv, PoolInv, Poolable, FetchAssumption
<1>11. OthersSame(c) /\ Types'
  <2>1. OthersSame(c)
    BY <1>1, <1>2, <1>7 DEF OthersSame, IInv, Types
  <2>2. wire' \in [Fetches -> Seq(Token)]
    BY <1>6, <1>7 DEF IInv, Types
  <2>3. shape' \in [Fetches -> Shape] /\ asked' \in [Fetches -> Fetches \cup {Nil}]
    BY <1>1, <1>2 DEF IInv, Types
  <2> QED
    BY <1>2, <2>1, <2>2, <2>3 DEF IInv, Types
<1>12. EarlyInv(c)' /\ PromiseInv(c)'
  BY <1>2, <1>3 DEF IInv, ConnInv, EarlyInv, PromiseInv
<1>13. HeadersInv(c)'
  <2>1. PICK h \in Seq(Token), x \in Seq(Token) : h = held[c] /\ x = wire[c]
    BY <1>5, PartTyped DEF IInv, Types
  <2>2. PICK p \in Seq(Token) : p = ts
    BY <1>5
  <2>3. h \o (x \o p) = (h \o x) \o p
    BY ConcatAssociative
  <2>4. h \o x \in Seq(Token) /\ Headerless(h \o x) /\ Headerless(h)
    BY <1>4, <2>1, ConcatAt, HeaderlessParts
  <2>5. held'[c] = h /\ wire'[c] = x \o p
    BY <1>2, <1>7, <2>1, <2>2
  <2>6. ts = Tokens(current[c], shape[c])'
    BY <1>2, <1>7 DEF ts
  <2>7. held'[c] \o wire'[c] = (h \o x) \o Tokens(current[c], shape[c])'
    BY <2>2, <2>3, <2>5, <2>6, Zenon
  <2> QED
    BY <2>4, <2>5, <2>7 DEF HeadersInv
<1>14. AskedInv(c)' /\ BodyInv(c)'
  BY <1>2, <1>4, <1>7 DEF AskedInv, BodyInv
<1>15. StreamInv(c)'
  BY <1>2, <1>4, <1>13, <1>14 DEF StreamInv
<1> QED
  BY <1>8, <1>9, <1>10, <1>11, <1>12, <1>15, StepOf DEF ConnInv

-----------------------------------------------------------------------------
(* Reads. *)

\* What every read does, whatever it finds.
ReadStep(c) ==
  /\ sock[c] = "open" /\ current[c] # Nil
  /\ UNCHANGED <<dnsVars, tls, secure, asked, current, shape, uses,
                 protocol, calm, alive>>
  /\ wire' \in [Fetches -> Seq(Token)]
  /\ response' \in [Fetches -> ResponseType]
  /\ held' \in [Fetches -> Part]
  /\ promise' \in [Fetches -> Fetches \cup {"pending", "rejected"}]
  /\ \A d \in Fetches \ {c} :
       /\ wire'[d] = wire[d] /\ response'[d] = response[d]
       /\ held'[d] = held[d] /\ promise'[d] = promise[d]
  /\ PromiseInv(c)'

Collects(c) ==
  /\ spent' \in [Fetches -> BOOLEAN]
  /\ sink' \in [Fetches -> Seq(Token)]
  /\ \A d \in Fetches \ {c} : spent'[d] = spent[d] /\ sink'[d] = sink[d]

Accounted(c) ==
  /\ AskedInv(c)
  /\ HeadersInv(c)
  /\ BodyInv(c)
  /\ ~response[c].headers_done /\ uses[c] = 1 => ~spent[c]

LEMMA AfterRead ==
  ASSUME IInv, NEW c \in Fetches, ReadStep(c), Collects(c),
         NEW body,
         \/ Nothing /\ Accounted(c)' /\ (Poolable(c) => Poolable(c)')
         \/ /\ Complete(c, body) /\ Accounted(c)'
            /\ response'[c].headers_done
            /\ IF shape[c].chunked THEN spent'[c] ELSE wire'[c] = <<>>
            /\ ~(shape[c].chunked /\ uses[c] > 1) =>
                 wire'[c] \in {<<>>, <<T("lf")>>} /\ body = Body3(c)
         \/ CloseSocket(c) /\ UNCHANGED completed
  PROVE  IInv'
<1>1. LookupInv' /\ ConnectInv'
  <2>1. \A d \in Fetches : sock'[d] # "none" => sock[d] # "none"
    BY DEF Nothing, Complete, CloseSocket, IInv, Types, ReadStep
  <2> QED
    BY <2>1, LookupsFrame DEF ReadStep
<1>2. /\ EarlyInv(c)' /\ PromiseInv(c)' /\ uses[c] >= 1
      /\ UNCHANGED <<tls, secure, asked, current, shape, uses, protocol>>
  BY DEF ReadStep, IInv, ConnInv, StreamInv, EarlyInv, Nothing, Complete, CloseSocket, Types
<1>4. CASE Nothing /\ Accounted(c)' /\ (Poolable(c) => Poolable(c)')
  <2>1. OthersSame(c) /\ Types'
    BY <1>4 DEF Nothing, OthersSame, ReadStep, Collects, IInv, Types
  <2>2. CompletedInv'
    BY <1>4 DEF Nothing, IInv, CompletedInv
  <2>3. StreamInv(c)'
    BY <1>2, <1>4 DEF Accounted, StreamInv
  <2>4. PoolStep(c)
    BY <1>4, FetchAssumption DEF Nothing, PoolStep, IInv, PoolInv, FetchAssumption
  <2> QED
    BY <1>1, <1>2, <2>1, <2>2, <2>3, <2>4, StepOf DEF ConnInv
<1>5. CASE /\ Complete(c, body) /\ Accounted(c)'
           /\ response'[c].headers_done
           /\ IF shape[c].chunked THEN spent'[c] ELSE wire'[c] = <<>>
           /\ ~(shape[c].chunked /\ uses[c] > 1) =>
                wire'[c] \in {<<>>, <<T("lf")>>} /\ body = Body3(c)
  <2>1. /\ sockets' = [sockets EXCEPT ![StoreKey] = c] /\ UNCHANGED sock
        /\ completed' = completed \cup
             {[conn |-> c, request |-> current[c], use |-> uses[c],
               chunked |-> shape[c].chunked, units |-> shape[c].units, body |-> body]}
    BY <1>5 DEF Complete
  <2>2. OthersSame(c)
    BY <2>1 DEF OthersSame, ReadStep, Collects
  <2>3. Types'
    <3>1. sockets' \in [Keys -> Fetches \cup {Nil}]
      BY <2>1 DEF IInv, Types
    <3> QED
      BY <2>1, <3>1 DEF ReadStep, Collects, IInv, Types
  <2>4. CompletedInv'
    <3>1. ~(shape[c].chunked /\ uses[c] > 1) => body = Body(current[c], shape[c].units)
      BY <1>5 DEF Body3
    <3> QED
      BY <2>1, <3>1 DEF IInv, CompletedInv
  <2>5. StreamInv(c)'
    BY <1>2, <1>5 DEF Accounted, StreamInv
  <2>6. Poolable(c)'
    BY <1>2, <1>5, <2>1 DEF Accounted, AskedInv, Poolable, ReadStep
  <2>7. PoolStep(c)
    BY <2>1, <2>6 DEF PoolStep, IInv, Types
  <2> QED
    BY <1>1, <1>2, <2>2, <2>3, <2>4, <2>5, <2>7, StepOf DEF ConnInv
<1>6. CASE CloseSocket(c) /\ UNCHANGED completed
  <2>1. /\ sock' = [sock EXCEPT ![c] = "closed"] /\ sock'[c] = "closed"
        /\ sockets' = [sockets EXCEPT ![StoreKey] = Nil]
    BY <1>6 DEF CloseSocket, IInv, Types
  <2>2. OthersSame(c) /\ Types'
    BY <2>1 DEF OthersSame, ReadStep, Collects, IInv, Types
  <2>3. CompletedInv'
    BY <1>6 DEF IInv, CompletedInv
  <2>4. StreamInv(c)'
    BY <2>1 DEF StreamInv
  <2>5. \A k \in Keys : sockets'[k] = Nil
    BY <2>1 DEF IInv, PoolInv, Types
  <2>6. PoolStep(c)
    BY <2>5, FetchAssumption DEF PoolStep, FetchAssumption
  <2> QED
    BY <1>1, <1>2, <2>2, <2>3, <2>4, <2>6, StepOf DEF ConnInv
<1> QED
  BY <1>4, <1>5, <1>6

\* A body with a length ends where the next response would begin.
LEMMA LengthKeeps ==
  ASSUME IInv, NEW c \in Fetches, ReadStep(c),
         NEW ts \in Seq(Token), NEW got \in Seq(Token), NEW r, OnLength(c, ts, got, r),
         NEW w \in Seq(Token), wire'[c] = w,
         r.body_bytes = Len(got), r.content_length = shape[c].units,
         ~shape[c].chunked, ~Poolable(c), asked[c] = Nil,
         response'[c].headers_done, ~response'[c].chunked, held'[c] = <<>>,
         response'[c].content_length = shape[c].units,
         response'[c].body_bytes = Len(got) + Len(ts),
         Headerless(w), (got \o ts) \o w = Body3(c)
  PROVE  IInv'
<1> DEFINE body == got \o ts
<1>1. body \in Seq(Token) /\ Len(body) = Len(got) + Len(ts)
  BY ConcatAt
<1>2. sink' = [sink EXCEPT ![c] = body] /\ UNCHANGED spent
  BY DEF OnLength
<1>3. body \o w = Body3(c)
  OBVIOUS
<1>4. \/ Len(got) + Len(ts) = shape[c].units /\ Complete(c, body)
      \/ Nothing
  BY DEF OnLength
<1> HIDE DEF body
<1>5. Collects(c) /\ sink'[c] = body
  BY <1>1, <1>2 DEF Collects, IInv, Types
<1>6. UNCHANGED <<current, shape, uses>> /\ shape[c] \in Shape /\ current[c] \in Fetches
  BY DEF ReadStep, IInv, Types
<1>7. Accounted(c)'
  <2>1. HeadersInv(c)'
    BY DEF HeadersInv
  <2>2. BodyInv(c)'
    <3>1. Body3(c)' = Body3(c)
      BY <1>6 DEF Body3
    <3>2. response'[c].body_bytes = Len(sink'[c]) /\ sink'[c] \o wire'[c] = Body3(c)
      BY <1>1, <1>3, <1>5
    <3>3. response'[c].chunked = shape'[c].chunked
      BY <1>6 DEF ReadStep, ResponseType, Shape
    <3> QED
      BY <1>6, <3>1, <3>2, <3>3 DEF BodyInv
  <2> QED
    BY <2>1, <2>2 DEF Accounted, AskedInv, ReadStep
<1>8. CASE Nothing
  <2>1. Nothing /\ Accounted(c)' /\ ~Poolable(c)
    BY <1>7, <1>8, Zenon
  <2> QED
    BY <1>5, <2>1, AfterRead
<1>9. CASE Len(got) + Len(ts) = shape[c].units /\ Complete(c, body)
  <2>1. Body3(c) \in Seq(Token) /\ Len(Body3(c)) = shape[c].units
    <3>1. PICK f \in Fetches, s \in Shape : f = current[c] /\ s = shape[c]
      BY <1>6
    <3>2. s.units \in Nat
      BY PayloadTyped
    <3>3. Body(f, s.units) \in Seq(Token) /\ Len(Body(f, s.units)) = s.units
      BY <3>2, BodyTyped
    <3> QED
      BY <3>1, <3>3 DEF Body3
  <2>3. body = Body3(c) /\ wire'[c] = <<>>
    <3> DEFINE p == Body3(c)
    <3>1. /\ w \in Seq(Token) /\ p \in Seq(Token) /\ body \in Seq(Token)
          /\ body \o w = p /\ Len(body) = Len(p)
      BY <1>1, <1>3, <1>9, <2>1
    <3> HIDE DEF p
    <3>2. body = p /\ w = <<>>
      BY <3>1, CutAtEnd
    <3> QED
      BY <3>2 DEF p
  <2> QED
    BY <1>5, <1>7, <1>9, <2>3, AfterRead
<1> QED
  BY <1>4, <1>8, <1>9

\* A chunked body ends with the first read that sees its end.
LEMMA ChunksKeep ==
  ASSUME IInv, NEW c \in Fetches, ReadStep(c),
         NEW ts \in Seq(Token), Len(ts) >= 1, NEW got \in Seq(Token),
         NEW w \in Seq(Token), wire'[c] = w,
         OnChunks(c, ts, got), shape[c].chunked, asked[c] = Nil,
         response'[c].headers_done, response'[c].chunked, held'[c] = <<>>,
         Headerless(w),
         uses[c] = 1 /\ ~spent[c] =>
           /\ UnitsOnly(got)
           /\ (got \o ts) \o w = Payload(current[c], shape[c]),
         uses[c] = 1 /\ spent[c] =>
           got = Body3(c) /\ ts = <<T("lf")>> /\ w = <<>>
  PROVE  IInv'
<1> DEFINE some == HasLast(ts)
           ends == IF spent[c] THEN ts # <<T("cr")>> ELSE some
           left == IF spent[c]
                     THEN ts \notin {<<T("last")>>, <<T("lf")>>, <<T("cr"), T("lf")>>}
                     ELSE ts[Len(ts)].t # "last"
<1>1. PICK k \in IF spent[c] THEN {0} ELSE Leading(ts) :
        LET body == got \o SubSeq(ts, 1, k) IN
        /\ sink' = [sink EXCEPT ![c] = body]
        /\ spent' = [spent EXCEPT ![c] = spent[c] \/ some]
        /\ \/ ~ends /\ Nothing
           \/ ends /\ left /\ Complete(c, body)
           \/ ends /\ ~left /\ CloseSocket(c) /\ UNCHANGED completed
  BY DEF OnChunks, HasLast
<1> DEFINE body == got \o SubSeq(ts, 1, k)
<1>2. k \in 0..Len(ts) /\ Len(ts) \in Nat
  BY LenProperties DEF Leading
<1>3. body \in Seq(Token)
  <2>1. SubSeq(ts, 1, k) \in Seq(Token)
    <3>1. \A i \in 1..k : ts[i] \in Token
      BY <1>2, ElementOfSeq
    <3> QED
      BY <1>2, <3>1, SubSeqProperties
  <2> QED
    BY <2>1, ConcatAt
<1>4. /\ UNCHANGED <<current, shape, uses>> /\ uses[c] >= 1 /\ uses[c] \in Nat
      /\ current[c] \in Fetches /\ shape[c] \in Shape /\ w \in Seq(Token)
  BY DEF ReadStep, IInv, Types, ConnInv, StreamInv
<1>5. ASSUME uses[c] = 1, ~spent[c]
      PROVE  /\ ~some => body \o w = Payload(current[c], shape[c])
                          /\ UnitsOnly(body)
             /\ some => /\ body = Body3(c)
                        /\ left => w \in {<<>>, <<T("lf")>>}
  <2>1. k \in Leading(ts)
    BY <1>5
  <2>2. /\ UnitsOnly(got)
        /\ (got \o ts) \o w = Payload(current[c], shape[c])
    BY <1>5
  <2>3. left <=> ts[Len(ts)].t # "last"
    BY <1>5
  <2>4. /\ ~some => body = got \o ts /\ UnitsOnly(body)
        /\ some => /\ body = Body(current[c], shape[c].units)
                   /\ ts[Len(ts)].t # "last" => w \in {<<>>, <<T("lf")>>}
    <3>1. PICK f \in Fetches, s \in Shape : f = current[c] /\ s = shape[c] /\ s.chunked
      BY <1>4
    <3>2. (got \o ts) \o w = Payload(f, s)
      BY <2>2, <3>1
    <3>3. PICK b : b = body /\ b = got \o SubSeq(ts, 1, k)
      OBVIOUS
    <3>4. ChunkRead(f, s, got, ts, w, k)
      BY <2>1, <2>2, <3>1, <3>2 DEF ChunkRead
    <3>5. ChunkResult(f, s, got, ts, w, b)
      BY <3>3, <3>4, ChunksRead
    <3> QED
      BY <3>1, <3>3, <3>5, Zenon DEF ChunkResult
  <2> HIDE DEF body, left
  <2> QED
    BY <2>2, <2>3, <2>4 DEF Body3
<1>6. ASSUME uses[c] = 1, spent[c] PROVE body = Body3(c) /\ w = <<>>
  <2>1. SubSeq(ts, 1, k) = <<>>
    BY <1>6
  <2> QED
    BY <1>6, <2>1, ConcatEmptySeq
<1> HIDE DEF body
<1>7. /\ Collects(c) /\ sink'[c] = body /\ (spent'[c] <=> spent[c] \/ some)
      /\ \/ ~ends /\ Nothing
         \/ ends /\ left /\ Complete(c, body)
         \/ ends /\ ~left /\ CloseSocket(c) /\ UNCHANGED completed
  <2>1. /\ sink' = [sink EXCEPT ![c] = body]
        /\ spent' = [spent EXCEPT ![c] = spent[c] \/ some]
        /\ \/ ~ends /\ Nothing
           \/ ends /\ left /\ Complete(c, body)
           \/ ends /\ ~left /\ CloseSocket(c) /\ UNCHANGED completed
    BY <1>1, Zenon DEF body
  <2>2. (spent[c] \/ some) \in BOOLEAN
    BY DEF IInv, Types, HasLast
  <2> HIDE DEF ends, left, some
  <2> QED
    BY <1>3, <2>1, <2>2 DEF Collects, IInv, Types
<1>8. /\ ~spent[c] => (ends <=> some)
      /\ uses[c] = 1 /\ spent[c] => ends
  <2>1. <<T("lf")>> # <<T("cr")>>
    BY DEF T
  <2> QED
    BY <2>1
<1> HIDE DEF ends, left, some
<1>9. ~ends \/ left => Accounted(c)'
  <2>1. HeadersInv(c)'
    BY DEF HeadersInv
  <2>2. ASSUME ~ends \/ left PROVE BodyInv(c)'
    <3>1. uses[c] = 1 =>
            \/ /\ ~spent'[c]
               /\ UnitsOnly(sink'[c])
               /\ sink'[c] \o wire'[c] = Payload(current[c], shape[c])
            \/ /\ spent'[c]
               /\ sink'[c] = Body3(c)
               /\ wire'[c] \in {<<>>, <<T("lf")>>}
      <4>1. CASE uses[c] = 1 /\ spent[c]
        BY <4>1, <1>6, <1>7, <1>8
      <4>2. CASE uses[c] = 1 /\ ~spent[c] /\ some
        BY <4>2, <1>5, <1>7, <1>8, <2>2
      <4>3. CASE uses[c] = 1 /\ ~spent[c] /\ ~some
        <5>1. ~spent'[c] /\ sink'[c] = body
          BY <4>3, <1>7, <1>8
        <5>2. /\ body \o wire'[c] = Payload(current[c], shape[c])
              /\ UnitsOnly(body)
          BY <4>3, <1>5
        <5> QED
          BY <5>1, <5>2, Zenon
      <4> QED
        BY <4>1, <4>2, <4>3
    <3> QED
      BY <1>4, <3>1 DEF BodyInv, Body3
  <2> QED
    BY <2>1, <2>2 DEF Accounted, AskedInv, ReadStep
<1>10. CASE ~ends /\ Nothing
  <2>1. Poolable(c) => Poolable(c)'
    BY <1>4, <1>7, <1>8, <1>10 DEF Nothing, Poolable, ReadStep
  <2> QED
    BY <1>7, <1>9, <1>10, <2>1, AfterRead
<1>11. CASE ends /\ left /\ Complete(c, body)
  <2>1. ~(shape[c].chunked /\ uses[c] > 1) =>
          wire'[c] \in {<<>>, <<T("lf")>>} /\ body = Body3(c)
    <3>1. CASE uses[c] = 1 /\ spent[c]
      BY <3>1, <1>6
    <3>2. CASE uses[c] = 1 /\ ~spent[c]
      <4>1. some /\ left
        BY <3>2, <1>8, <1>11
      <4> QED
        BY <3>2, <4>1, <1>5
    <3> QED
      BY <3>1, <3>2, <1>4
  <2>2. spent'[c]
    BY <1>7, <1>8, <1>11
  <2> QED
    BY <1>7, <1>9, <1>11, <2>1, <2>2, AfterRead
<1>12. CASE CloseSocket(c) /\ UNCHANGED completed
  BY <1>7, <1>12, AfterRead
<1> QED
  BY <1>7, <1>10, <1>11, <1>12

\* What is the same in every call of handle_response.
Reading(c, ts, w) ==
  /\ sock[c] = "open" /\ current[c] # Nil
  /\ ts \in Seq(Token) /\ w \in Seq(Token) /\ Len(ts) >= 1 /\ ts \o w = wire[c]
  /\ wire' = [wire EXCEPT ![c] = w]
  /\ UNCHANGED <<dnsVars, tls, secure, asked, current, shape, uses,
                 protocol, calm, alive>>

LEMMA OnBodyKeeps ==
  ASSUME IInv, NEW c \in Fetches, NEW ts, NEW w, Reading(c, ts, w),
         response[c].headers_done, OnBody(c, ts)
  PROVE  IInv'
<1>1. /\ ts \in Seq(Token) /\ w \in Seq(Token) /\ ts \o w = wire[c]
      /\ Len(ts) >= 1 /\ Len(ts) \in Nat
      /\ sock[c] = "open" /\ current[c] # Nil /\ wire'[c] = w
  BY LenProperties DEF Reading, IInv, Types
<1>2. asked[c] = Nil /\ BodyInv(c) /\ uses[c] >= 1
  BY <1>1 DEF IInv, ConnInv, StreamInv, AskedInv
<1>3. /\ shape[c] \in Shape /\ response[c] \in ResponseType
      /\ response[c].chunked = shape[c].chunked
      /\ held[c] = <<>> /\ Headerless(wire[c])
  BY <1>2 DEF IInv, Types, BodyInv
<1>4. PICK got \in Seq(Token) : got = sink[c]
  BY DEF IInv, Types
<1>5. /\ UNCHANGED <<held, promise>>
      /\ response' = [response EXCEPT ![c] =
           [response[c] EXCEPT !.body_bytes = response[c].body_bytes + Len(ts)]]
      /\ IF response[c].chunked THEN OnChunks(c, ts, got)
         ELSE OnLength(c, ts, got, response[c])
  BY <1>4 DEF OnBody, IInv, Types
<1>6. /\ response' \in [Fetches -> ResponseType]
      /\ response'[c].headers_done /\ response'[c].chunked = response[c].chunked
      /\ response'[c].content_length = response[c].content_length
      /\ response'[c].body_bytes = response[c].body_bytes + Len(ts)
      /\ \A d \in Fetches \ {c} : response'[d] = response[d]
  <2> DEFINE rc == [response[c] EXCEPT !.body_bytes = response[c].body_bytes + Len(ts)]
  <2>1. response[c].body_bytes + Len(ts) \in Nat
    BY <1>1, <1>3 DEF ResponseType
  <2>2. /\ rc \in ResponseType
        /\ rc.headers_done = response[c].headers_done
        /\ rc.chunked = response[c].chunked
        /\ rc.content_length = response[c].content_length
        /\ rc.body_bytes = response[c].body_bytes + Len(ts)
    BY <1>3, <2>1 DEF ResponseType
  <2>3. response' = [response EXCEPT ![c] = rc]
    BY <1>5
  <2> HIDE DEF rc
  <2>4. /\ response' \in [Fetches -> ResponseType] /\ response'[c] = rc
        /\ \A d \in Fetches \ {c} : response'[d] = response[d]
    BY <2>2, <2>3 DEF IInv, Types
  <2> QED
    BY <2>2, <2>4
<1>7. ReadStep(c)
  <2>1. PromiseInv(c)'
    BY <1>5, <1>6 DEF IInv, ConnInv, PromiseInv
  <2>2. /\ wire' \in [Fetches -> Seq(Token)]
        /\ \A d \in Fetches \ {c} : wire'[d] = wire[d]
    BY <1>1 DEF Reading, IInv, Types
  <2>3. /\ UNCHANGED <<dnsVars, tls, secure, asked, current, shape, uses,
                       protocol, calm, alive>>
    BY DEF Reading
  <2>4. /\ held' \in [Fetches -> Part]
        /\ promise' \in [Fetches -> Fetches \cup {"pending", "rejected"}]
        /\ \A d \in Fetches \ {c} : held'[d] = held[d] /\ promise'[d] = promise[d]
    BY <1>5 DEF IInv, Types
  <2> QED
    BY <1>1, <1>6, <2>1, <2>2, <2>3, <2>4, Zenon DEF ReadStep
<1>8. Headerless(w) /\ held'[c] = <<>>
  <2>1. Headerless(ts \o w)
    BY <1>1, <1>3, Zenon
  <2> QED
    BY <1>1, <1>3, <1>5, <2>1, HeaderlessParts
<1>9. (got \o ts) \o w = got \o wire[c]
  <2>1. \A x, y, z \in Seq(Token) : (x \o y) \o z = x \o (y \o z)
    BY ConcatAssociative
  <2>2. (got \o ts) \o w = got \o (ts \o w)
    <3>1. got \in Seq(Token) /\ ts \in Seq(Token) /\ w \in Seq(Token)
      BY <1>1
    <3>2. \A y, z \in Seq(Token) : (got \o y) \o z = got \o (y \o z)
      BY <2>1, <3>1
    <3>3. \A z \in Seq(Token) : (got \o ts) \o z = got \o (ts \o z)
      BY <3>1, <3>2
    <3> QED
      BY <3>1, <3>3
  <2> QED
    BY <1>1, <2>2, Zenon
<1>10. CASE shape[c].chunked
  <2>1. ASSUME uses[c] = 1, ~spent[c]
        PROVE  UnitsOnly(got) /\ (got \o ts) \o w = Payload(current[c], shape[c])
    BY <1>2, <1>4, <1>9, <1>10, <2>1 DEF BodyInv
  <2>2. ASSUME uses[c] = 1, spent[c]
        PROVE  got = Body3(c) /\ ts = <<T("lf")>> /\ w = <<>>
    <3>1. got = Body3(c) /\ wire[c] \in {<<>>, <<T("lf")>>}
      BY <1>2, <1>4, <1>10, <2>2 DEF BodyInv
    <3>2. ts \o w = <<T("lf")>>
      <4>1. ts \o w # <<>>
        <5>1. Len(ts \o w) = Len(ts) + Len(w) /\ Len(w) \in Nat
          BY <1>1, ConcatProperties, LenProperties
        <5> QED
          BY <1>1, <5>1
      <4> QED
        BY <1>1, <3>1, <4>1
    <3>3. PICK p \in Seq(Token) : p = <<T("lf")>> /\ Len(p) = 1
      <4>1. PICK e \in Token : e = T("lf")
        BY DEF T, Token, Marks
      <4>2. <<e>> \in Seq(Token) /\ Len(<<e>>) = 1
        OBVIOUS
      <4> QED
        BY <4>1, <4>2
    <3>4. Len(ts) = Len(p)
      <4>1. Len(ts \o w) = Len(ts) + Len(w) /\ Len(w) \in Nat
        BY <1>1, ConcatProperties, LenProperties
      <4>2. Len(ts) + Len(w) = 1 /\ Len(ts) >= 1
        BY <1>1, <3>2, <3>3, <4>1
      <4> QED
        BY <1>1, <3>3, <4>1, <4>2
    <3>5. ts \o w = p
      BY <3>2, <3>3, Zenon
    <3>6. ts = p /\ w = <<>>
      BY <1>1, <3>3, <3>4, <3>5, CutAtEnd
    <3> QED
      BY <3>1, <3>3, <3>6, Zenon
  <2>3. OnChunks(c, ts, got) /\ response'[c].chunked
    BY <1>3, <1>5, <1>6, <1>10
  <2> QED
    BY <1>1, <1>2, <1>6, <1>7, <1>8, <1>10, <2>1, <2>2, <2>3, ChunksKeep
<1>11. CASE ~shape[c].chunked
  <2>1. /\ response[c].content_length = shape[c].units
        /\ response[c].body_bytes = Len(got)
        /\ (got \o ts) \o w = Body3(c)
    BY <1>2, <1>4, <1>9, <1>11 DEF BodyInv
  <2>2. ~Poolable(c)
    <3>1. wire[c] # <<>>
      <4>1. Len(ts \o w) = Len(ts) + Len(w) /\ Len(w) \in Nat
        BY <1>1, ConcatProperties, LenProperties
      <4> QED
        BY <1>1, <4>1
    <3> QED
      BY <1>11, <3>1 DEF Poolable
  <2>3. OnLength(c, ts, got, response[c]) /\ ~response'[c].chunked
    BY <1>3, <1>5, <1>6, <1>11
  <2>4. PICK r : r = response[c]
    OBVIOUS
  <2> QED
    BY <1>1, <1>2, <1>6, <1>7, <1>8, <1>11, <2>1, <2>2, <2>3, <2>4, LengthKeeps
<1> QED
  BY <1>10, <1>11

\* The three ends of a read of headers, for what is in the buffer then.
Refused(c) ==
  /\ CloseSocket(c)
  /\ UNCHANGED <<response, held, sink, spent, promise, completed>>

Partly(c, all) ==
  /\ all = <<T("h1")>> \/ LineEnds(all)
  /\ held' = [held EXCEPT ![c] = all]
  /\ Nothing /\ UNCHANGED <<response, sink, spent, promise>>

Parsed(c, all, rest, r) ==
  /\ Len(all) >= 2 /\ SubSeq(all, 1, 2) = Headers
  /\ rest = SubSeq(all, 3, Len(all))
  /\ r = [headers_done |-> TRUE, chunked |-> shape[c].chunked,
          content_length |-> IF shape[c].chunked THEN 0 ELSE shape[c].units,
          body_bytes |-> Len(rest)]
  /\ promise' = [promise EXCEPT ![c] = IF @ = "pending" THEN current[c] ELSE @]
  /\ response' = [response EXCEPT ![c] = r]
  /\ held' = [held EXCEPT ![c] = <<>>]
  /\ \/ /\ rest = <<>> /\ Nothing /\ UNCHANGED spent
        /\ sink' = [sink EXCEPT ![c] = <<>>]
     \/ rest # <<>> /\ shape[c].chunked /\ OnChunks(c, rest, <<>>)
     \/ /\ rest # <<>> /\ ~shape[c].chunked
        /\ OnLength(c, rest, <<>>, [r EXCEPT !.body_bytes = 0])

LEMMA HeadersEnd ==
  ASSUME NEW c \in Fetches, NEW ts, OnHeaders(c, ts)
  PROVE  \E all, rest, r :
           /\ all = held[c] \o ts
           /\ Refused(c) \/ Partly(c, all) \/ Parsed(c, all, rest, r)
<1> DEFINE all  == held[c] \o ts
           head == SubSeq(Headers, 1, IF Len(all) < 2 THEN Len(all) ELSE 2)
           rest == SubSeq(all, 3, Len(all))
           r    == [headers_done |-> TRUE, chunked |-> shape[c].chunked,
                    content_length |-> IF shape[c].chunked THEN 0 ELSE shape[c].units,
                    body_bytes |-> Len(rest)]
<1>1. \/ /\ CloseSocket(c)
         /\ UNCHANGED <<response, held, sink, spent, promise, completed>>
      \/ /\ all = <<T("h1")>> \/ LineEnds(all)
         /\ held' = [held EXCEPT ![c] = all]
         /\ Nothing /\ UNCHANGED <<response, sink, spent, promise>>
      \/ /\ Len(all) >= 2 /\ SubSeq(all, 1, 2) = head
         /\ promise' = [promise EXCEPT ![c] = IF @ = "pending" THEN current[c] ELSE @]
         /\ response' = [response EXCEPT ![c] = r]
         /\ held' = [held EXCEPT ![c] = <<>>]
         /\ IF rest = <<>>
              THEN /\ Nothing /\ UNCHANGED spent
                   /\ sink' = [sink EXCEPT ![c] = <<>>]
              ELSE IF r.chunked THEN OnChunks(c, rest, <<>>)
              ELSE OnLength(c, rest, <<>>, [r EXCEPT !.body_bytes = 0])
  BY DEF OnHeaders
<1>2. r.chunked = shape[c].chunked
  OBVIOUS
<1>3. Len(all) >= 2 => head = Headers
  <2>1. SubSeq(Headers, 1, 2) = Headers
    BY MarksTyped, SubSeqFull
  <2>2. CASE Len(all) < 2
    <3>1. Len(all) \in Nat => ~(Len(all) >= 2)
      BY <2>2
    <3> QED
      BY <2>1, <3>1
  <2>3. CASE ~(Len(all) < 2)
    BY <2>1, <2>3
  <2> QED
    BY <2>2, <2>3
<1> HIDE DEF r, rest, head
<1>4. Refused(c) \/ Partly(c, all) \/ Parsed(c, all, rest, r)
  BY <1>1, <1>2, <1>3, Zenon DEF Refused, Partly, Parsed, r, rest
<1> QED
  BY <1>4

\* Headers are taken from the front, and what is in front of the headers of
\* the response to come cannot be taken for them.
LEMMA HeadersOfCurrent ==
  ASSUME IInv, NEW c \in Fetches, NEW ts, NEW w, Reading(c, ts, w),
         ~response[c].headers_done,
         NEW all, all = held[c] \o ts, all[1].t = "h1"
  PROVE  /\ asked[c] = Nil
         /\ all \o w = Headers \o Payload(current[c], shape[c])
<1>1. /\ ts \in Seq(Token) /\ w \in Seq(Token) /\ ts \o w = wire[c]
      /\ Len(ts) >= 1 /\ sock[c] = "open" /\ current[c] # Nil
  BY DEF Reading
<1>2. AskedInv(c) /\ HeadersInv(c) /\ current[c] \in Fetches /\ shape[c] \in Shape
  BY <1>1 DEF IInv, Types, ConnInv, StreamInv
<1>3. PICK h \in Seq(Token) : h = held[c]
  BY PartTyped DEF IInv, Types
<1>4. /\ all \in Seq(Token) /\ all \o w = h \o wire[c]
      /\ Len(all) \in Nat /\ Len(all) >= 1
  <2>1. \A x, y, z \in Seq(Token) : (x \o y) \o z = x \o (y \o z)
    BY ConcatAssociative
  <2>2. \A y, z \in Seq(Token) : (h \o y) \o z = h \o (y \o z)
    BY <2>1
  <2>3. \A z \in Seq(Token) : (h \o ts) \o z = h \o (ts \o z)
    BY <1>1, <2>2
  <2>4. (h \o ts) \o w = h \o (ts \o w)
    BY <1>1, <2>3
  <2>5. h \o ts \in Seq(Token) /\ Len(h \o ts) = Len(h) + Len(ts)
        /\ Len(h) \in Nat /\ Len(ts) \in Nat
    BY <1>1, ConcatAt, LenProperties
  <2>6. all = h \o ts
    BY <1>3
  <2>7. Len(all) \in Nat /\ Len(all) >= 1
    BY <1>1, <2>5, <2>6
  <2> QED
    BY <1>1, <2>4, <2>5, <2>6, <2>7, Zenon
<1>6. asked[c] = Nil
  <2>1. SUFFICES ASSUME asked[c] # Nil PROVE FALSE
    OBVIOUS
  <2>2. Headerless(h) /\ Headerless(wire[c]) /\ wire[c] \in Seq(Token)
    BY <1>2, <1>3, <2>1 DEF AskedInv, IInv, Types
  <2>3. Headerless(h \o wire[c])
    BY <2>2, HeaderlessParts
  <2>4. Headerless(all \o w)
    BY <1>4, <2>3, Zenon
  <2>5. Headerless(all)
    BY <1>1, <1>4, <2>4, HeaderlessParts
  <2> QED
    BY <1>4, <2>5 DEF Headerless
<1>7. PICK junk \in Seq(Token) :
        /\ Headerless(junk)
        /\ h \o wire[c] = junk \o Tokens(current[c], shape[c])
  BY <1>2, <1>3, <1>6 DEF HeadersInv
<1> DEFINE ans == Tokens(current[c], shape[c])
<1>8. ans \in Seq(Token)
  BY <1>2, PayloadTyped
<1>9. PICK p \in Seq(Token) : p = ans
  BY <1>8
<1>10. all \o w = junk \o p
  BY <1>4, <1>7, <1>9
<1>11. junk = <<>>
  <2>1. SUFFICES ASSUME junk # <<>> PROVE FALSE
    OBVIOUS
  <2>2. 1 \in 1..Len(junk)
    BY <2>1, EmptySeq, LenProperties
  <2>3. (junk \o p)[1] = junk[1]
    BY <2>2, ConcatAt
  <2>4. (all \o w)[1] = all[1]
    <3>1. PICK a \in Seq(Token) : a = all
      BY <1>4
    <3>2. 1 \in 1..Len(a)
      BY <1>4, <3>1
    <3>3. (a \o w)[1] = a[1]
      BY <1>1, <3>2, ConcatAt
    <3> QED
      BY <3>1, <3>3, Zenon
  <2>5. junk[1].t = "h1"
    BY <1>10, <2>3, <2>4
  <2> QED
    BY <1>7, <2>2, <2>5 DEF Headerless
<1>12. all \o w = p
  BY <1>10, <1>11, ConcatEmptySeq
<1> QED
  BY <1>6, <1>9, <1>12 DEF Tokens

\* The headers are whole: the body begins with what came with them.
LEMMA ParsedKeeps ==
  ASSUME IInv, NEW c \in Fetches, NEW ts, NEW w, Reading(c, ts, w),
         ~response[c].headers_done,
         NEW all \in Seq(Token), NEW rest, NEW r, Parsed(c, all, rest, r),
         all \o w = Headers \o Payload(current[c], shape[c]), asked[c] = Nil
  PROVE  IInv'
<1>1. /\ w \in Seq(Token) /\ sock[c] = "open" /\ current[c] # Nil
      /\ current[c] \in Fetches /\ shape[c] \in Shape
      /\ wire' = [wire EXCEPT ![c] = w] /\ wire'[c] = w
      /\ UNCHANGED <<dnsVars, tls, secure, asked, current, shape, uses,
                     protocol, calm, alive>>
  BY DEF Reading, IInv, Types
<1>2. /\ uses[c] >= 1 /\ (uses[c] = 1 => ~spent[c])
      /\ ~Poolable(c)
  BY <1>1 DEF IInv, ConnInv, StreamInv, Poolable
<1>3. PICK p \in Seq(Token) : p = Payload(current[c], shape[c])
  BY <1>1, PayloadTyped
<1>4. /\ rest \in Seq(Token) /\ rest \o w = p
      /\ Len(rest) \in Nat /\ Len(all) >= 2
  <2>1. Len(all) >= 2 /\ Len(Headers) = 2 /\ Headers \in Seq(Token)
    BY MarksTyped DEF Parsed
  <2>2. all \o w = Headers \o p
    BY <1>3
  <2>3. PICK h \in Seq(Token) : h = Headers /\ Len(h) = 2
    BY <2>1
  <2>4. all \o w = h \o p /\ Len(all) >= Len(h)
    BY <2>1, <2>2, <2>3
  <2>5. /\ SubSeq(all, Len(h) + 1, Len(all)) \in Seq(Token)
        /\ SubSeq(all, Len(h) + 1, Len(all)) \o w = p
    <3>1. TwoCuts(all, w, h, p)
      BY <1>1, <2>4 DEF TwoCuts
    <3> QED
      BY <3>1, CutLater
  <2>6. Len(h) + 1 = 3
    BY <2>3
  <2>7. rest = SubSeq(all, 3, Len(all))
    BY DEF Parsed
  <2>8. rest \in Seq(Token) /\ rest \o w = p
    BY <2>5, <2>6, <2>7, Zenon
  <2> QED
    BY <2>1, <2>8, LenProperties
<1>5. /\ Headerless(w)
      /\ ~shape[c].chunked => p = Body3(c)
  <2>1. PICK f \in Fetches, s \in Shape : f = current[c] /\ s = shape[c]
    BY <1>1
  <2>2. p = Payload(f, s) /\ Headerless(p)
    BY <1>3, <2>1, PayloadTyped
  <2>3. Headerless(rest \o w)
    BY <1>4, <2>2
  <2>4. Headerless(w)
    BY <1>1, <1>4, <2>3, HeaderlessParts
  <2>5. ~s.chunked => p = Body(f, s.units)
    BY <2>2, PayloadTyped
  <2> QED
    BY <2>1, <2>4, <2>5 DEF Body3
<1>6. /\ r \in ResponseType /\ r.headers_done /\ r.chunked = shape[c].chunked
      /\ ~shape[c].chunked => r.content_length = shape[c].units
      /\ r.body_bytes = Len(rest)
  <2>1. shape[c].units \in 0..MaxUnits /\ shape[c].chunked \in BOOLEAN /\ 0 \in 0..MaxUnits
    BY <1>1, FetchAssumption DEF Shape, FetchAssumption
  <2>2. r = [headers_done |-> TRUE, chunked |-> shape[c].chunked,
             content_length |-> IF shape[c].chunked THEN 0 ELSE shape[c].units,
             body_bytes |-> Len(rest)]
    BY DEF Parsed
  <2>3. (IF shape[c].chunked THEN 0 ELSE shape[c].units) \in 0..MaxUnits
    BY <2>1
  <2> QED
    BY <1>4, <2>1, <2>2, <2>3 DEF ResponseType
<1>7. /\ response' \in [Fetches -> ResponseType] /\ response'[c] = r
      /\ held' \in [Fetches -> Part] /\ held'[c] = <<>>
      /\ \A d \in Fetches \ {c} : response'[d] = response[d] /\ held'[d] = held[d]
  BY <1>6, PartTyped DEF Parsed, IInv, Types
<1>8. /\ promise' \in [Fetches -> Fetches \cup {"pending", "rejected"}]
      /\ \A d \in Fetches \ {c} : promise'[d] = promise[d]
      /\ PromiseInv(c)'
  <2>1. promise' = [promise EXCEPT ![c] =
          IF promise[c] = "pending" THEN current[c] ELSE promise[c]]
    BY DEF Parsed
  <2>2. /\ promise' \in [Fetches -> Fetches \cup {"pending", "rejected"}]
        /\ \A d \in Fetches \ {c} : promise'[d] = promise[d]
        /\ promise'[c] = IF promise[c] = "pending" THEN current[c] ELSE promise[c]
    BY <1>1, <2>1 DEF IInv, Types
  <2>3. /\ promise[c] \in {"pending", "rejected", c}
        /\ promise[c] = "pending" => current[c] = c
    BY <1>1 DEF IInv, ConnInv, PromiseInv
  <2>4. promise'[c] \in {"rejected", c} /\ c # "pending"
    BY <2>2, <2>3, FetchAssumption DEF FetchAssumption
  <2> QED
    BY <2>2, <2>4 DEF PromiseInv
<1>9. ReadStep(c)
  <2>1. wire' \in [Fetches -> Seq(Token)] /\ \A d \in Fetches \ {c} : wire'[d] = wire[d]
    BY <1>1 DEF IInv, Types
  <2> QED
    BY <1>1, <1>7, <1>8, <2>1 DEF ReadStep
<1>10. PICK none \in Seq(Token) : none = <<>> /\ Len(none) = 0
  BY MarksTyped
<1>11. none \o rest = rest
  BY <1>4, <1>10, ConcatEmptySeq
<1>12. CASE /\ rest = <<>> /\ Nothing /\ UNCHANGED spent
            /\ sink' = [sink EXCEPT ![c] = <<>>]
  <2>1. Collects(c) /\ sink'[c] = none /\ UNCHANGED spent
    BY <1>10, <1>12 DEF Collects, IInv, Types
  <2>2. none \o w = p
    BY <1>4, <1>10, <1>12
  <2>3. HeadersInv(c)'
    BY <1>6, <1>7 DEF HeadersInv
  <2>4. BodyInv(c)'
    <3>1. UnitsOnly(none)
      BY <1>10 DEF UnitsOnly
    <3>2. ~shape[c].chunked =>
            /\ response'[c].content_length = shape[c].units
            /\ response'[c].body_bytes = Len(sink'[c])
            /\ sink'[c] \o wire'[c] = Body3(c)
      BY <1>1, <1>5, <1>6, <1>7, <1>10, <1>12, <2>1, <2>2
    <3>3. uses[c] = 1 => /\ ~spent'[c]
                         /\ UnitsOnly(sink'[c])
                         /\ sink'[c] \o wire'[c] = Payload(current[c], shape[c])
      BY <1>1, <1>2, <1>3, <2>1, <2>2, <3>1
    <3> QED
      BY <1>1, <1>5, <1>6, <1>7, <3>2, <3>3 DEF BodyInv, Body3
  <2>5. Accounted(c)'
    BY <1>1, <1>2, <2>1, <2>3, <2>4 DEF Accounted, AskedInv
  <2>6. Nothing /\ Accounted(c)' /\ ~Poolable(c)
    BY <1>2, <1>12, <2>5
  <2> QED
    BY <1>9, <2>1, <2>6, AfterRead
<1>13. CASE rest # <<>> /\ shape[c].chunked /\ OnChunks(c, rest, <<>>)
  <2>1. Len(rest) >= 1
    BY <1>4, <1>13, EmptySeq
  <2>2. UnitsOnly(none) /\ (none \o rest) \o w = Payload(current[c], shape[c])
    BY <1>3, <1>4, <1>10, <1>11 DEF UnitsOnly
  <2>3. OnChunks(c, rest, none) /\ ~(uses[c] = 1 /\ spent[c])
    BY <1>2, <1>10, <1>13
  <2>4. response'[c].headers_done /\ response'[c].chunked
    BY <1>6, <1>7, <1>13
  <2> QED
    BY <1>1, <1>4, <1>5, <1>7, <1>9, <1>13, <2>1, <2>2, <2>3, <2>4, ChunksKeep
<1>14. CASE /\ rest # <<>> /\ ~shape[c].chunked
            /\ OnLength(c, rest, <<>>, [r EXCEPT !.body_bytes = 0])
  <2>1. PICK q : /\ q = [r EXCEPT !.body_bytes = 0]
                 /\ q.body_bytes = 0 /\ q.content_length = r.content_length
    <3>1. PICK e \in ResponseType : e = r
      BY <1>6
    <3>2. PICK q : q = [e EXCEPT !.body_bytes = 0]
      OBVIOUS
    <3>3. q.body_bytes = 0 /\ q.content_length = e.content_length
      BY <3>2 DEF ResponseType
    <3> QED
      BY <3>1, <3>2, <3>3
  <2>2. OnLength(c, rest, none, q)
    BY <1>10, <1>14, <2>1
  <2>3. /\ q.body_bytes = Len(none) /\ q.content_length = shape[c].units
        /\ (none \o rest) \o w = Body3(c)
    BY <1>4, <1>5, <1>6, <1>10, <1>11, <1>14, <2>1
  <2>4. /\ response'[c].headers_done /\ ~response'[c].chunked
        /\ response'[c].content_length = shape[c].units
        /\ response'[c].body_bytes = Len(none) + Len(rest)
    BY <1>4, <1>6, <1>7, <1>10, <1>14
  <2>5. /\ rest \in Seq(Token) /\ w \in Seq(Token) /\ none \in Seq(Token)
        /\ wire'[c] = w /\ held'[c] = <<>> /\ ~shape[c].chunked
    BY <1>1, <1>4, <1>7, <1>14
  <2> QED
    BY <1>2, <1>5, <1>9, <2>2, <2>3, <2>4, <2>5, LengthKeeps
<1> QED
  BY <1>12, <1>13, <1>14 DEF Parsed

Holds(c, all) == held'[c] = all

\* Half of the headers, or only what was left of the last body, is held.
LEMMA StatusLineHeld ==
  ASSUME IInv, NEW c \in Fetches, NEW ts, NEW w, Reading(c, ts, w),
         ~response[c].headers_done,
         NEW all, all = held[c] \o ts, all[1].t = "h1", Holds(c, all)
  PROVE  AskedInv(c)' /\ HeadersInv(c)'
<1>1. /\ UNCHANGED <<asked, current, shape>> /\ wire'[c] = w
      /\ current[c] \in Fetches /\ shape[c] \in Shape
  BY DEF Reading, IInv, Types
<1>3. /\ asked[c] = Nil
      /\ all \o w = Headers \o Payload(current[c], shape[c])
  BY HeadersOfCurrent
<1>4. PICK ans \in Seq(Token) : ans = Tokens(current[c], shape[c])
  BY <1>1, PayloadTyped
<1>5. held'[c] \o wire'[c] = ans /\ ans = <<>> \o ans
  BY <1>1, <1>3, <1>4, ConcatEmptySeq DEF Tokens, Holds
<1>6. ans = Tokens(current[c], shape[c])'
  BY <1>1, <1>4
<1>7. held'[c] \o wire'[c] = <<>> \o Tokens(current[c], shape[c])'
  BY <1>5, <1>6, Zenon
<1>8. HeadersInv(c)'
  BY <1>7, PartTyped, MarksTyped DEF HeadersInv
<1> QED
  BY <1>1, <1>3, <1>8 DEF AskedInv

LEMMA LineEndsHeld ==
  ASSUME IInv, NEW c \in Fetches, NEW ts, NEW w, Reading(c, ts, w),
         ~response[c].headers_done, UNCHANGED response,
         NEW all \in Seq(Token), all = held[c] \o ts, LineEnds(all), Holds(c, all)
  PROVE  AskedInv(c)' /\ HeadersInv(c)'
<1>0. \A x, y, z \in Seq(Token) : (x \o y) \o z = x \o (y \o z)
  BY ConcatAssociative
<1>1. /\ UNCHANGED <<asked, current, shape>> /\ wire'[c] = w
      /\ ts \in Seq(Token) /\ w \in Seq(Token) /\ ts \o w = wire[c]
  BY DEF Reading, IInv, Types
<1>2. AskedInv(c) /\ HeadersInv(c) /\ Headerless(all)
  BY PartTyped DEF IInv, ConnInv, StreamInv, Reading
<1>3. AskedInv(c)'
  <2>1. SUFFICES ASSUME asked[c] # Nil PROVE AskedInv(c)'
    BY <1>1 DEF AskedInv
  <2>2. Headerless(ts \o w)
    BY <1>1, <1>2, <2>1, Zenon DEF AskedInv
  <2>3. Headerless(w)
    BY <1>1, <2>2, HeaderlessParts
  <2> QED
    BY <1>1, <1>2, <2>3 DEF AskedInv, Holds
<1>4. HeadersInv(c)'
  <2>1. SUFFICES ASSUME asked[c] = Nil PROVE HeadersInv(c)'
    BY <1>1 DEF HeadersInv
  <2>2. PICK junk \in Seq(Token) :
          /\ Headerless(junk)
          /\ held[c] \o wire[c] = junk \o Tokens(current[c], shape[c])
    BY <1>2, <2>1 DEF HeadersInv
  <2>3. PICK h \in Seq(Token) : h = held[c]
    BY PartTyped DEF IInv, Types
  <2>4. (h \o ts) \o w = h \o (ts \o w)
    <3>1. \A y, z \in Seq(Token) : (h \o y) \o z = h \o (y \o z)
      BY <1>0
    <3>2. \A z \in Seq(Token) : (h \o ts) \o z = h \o (ts \o z)
      BY <1>1, <3>1
    <3> QED
      BY <1>1, <3>2
  <2>5. held'[c] \o wire'[c] = held[c] \o wire[c]
    BY <1>1, <2>3, <2>4, Zenon DEF Holds
  <2>6. Tokens(current[c], shape[c])' = Tokens(current[c], shape[c])
    BY <1>1
  <2>7. held'[c] \o wire'[c] = junk \o Tokens(current[c], shape[c])'
    BY <2>2, <2>5, <2>6, Zenon
  <2> QED
    BY <1>2, <2>2, <2>7 DEF HeadersInv, Holds
<1> QED
  BY <1>3, <1>4

LEMMA OnHeadersKeeps ==
  ASSUME IInv, NEW c \in Fetches, NEW ts, NEW w, Reading(c, ts, w),
         ~response[c].headers_done, OnHeaders(c, ts)
  PROVE  IInv'
<1>1. PICK all, rest, r :
        /\ all = held[c] \o ts
        /\ Refused(c) \/ Partly(c, all) \/ Parsed(c, all, rest, r)
  BY HeadersEnd
<1>2. /\ ts \in Seq(Token) /\ w \in Seq(Token)
      /\ sock[c] = "open" /\ current[c] # Nil
      /\ current[c] \in Fetches /\ shape[c] \in Shape
      /\ wire' = [wire EXCEPT ![c] = w] /\ wire'[c] = w
      /\ UNCHANGED <<dnsVars, tls, secure, asked, current, shape, uses,
                     protocol, calm, alive>>
  BY DEF Reading, IInv, Types
<1>3. all \in Seq(Token)
  <2>1. PICK h \in Seq(Token) : h = held[c]
    BY PartTyped DEF IInv, Types
  <2> QED
    BY <1>1, <1>2, <2>1, ConcatAt
<1>4. ASSUME UNCHANGED <<response, promise>>,
             held' \in [Fetches -> Part],
             \A d \in Fetches \ {c} : held'[d] = held[d]
      PROVE  ReadStep(c)
  <2>1. wire' \in [Fetches -> Seq(Token)] /\ \A d \in Fetches \ {c} : wire'[d] = wire[d]
    BY <1>2 DEF IInv, Types
  <2>2. PromiseInv(c)'
    BY <1>2, <1>4 DEF IInv, ConnInv, PromiseInv
  <2> QED
    BY <1>2, <1>4, <2>1, <2>2 DEF ReadStep, IInv, Types
<1>5. CASE Refused(c)
  <2>1. ReadStep(c)
    BY <1>4, <1>5 DEF Refused, IInv, Types
  <2>2. Collects(c)
    BY <1>5 DEF Refused, Collects, IInv, Types
  <2>3. CloseSocket(c) /\ UNCHANGED completed
    BY <1>5 DEF Refused
  <2> QED
    BY <2>1, <2>2, <2>3, AfterRead
<1>6. CASE Partly(c, all)
  <2>1. all = <<T("h1")>> \/ LineEnds(all)
    BY <1>6 DEF Partly
  <2>2. /\ held' \in [Fetches -> Part] /\ held'[c] = all
        /\ \A d \in Fetches \ {c} : held'[d] = held[d]
    <3>1. all \in Part /\ held' = [held EXCEPT ![c] = all]
      BY <1>3, <1>6, <2>1, PartTyped DEF Partly
    <3> QED
      BY <3>1 DEF IInv, Types
  <2>3. ReadStep(c)
    BY <1>4, <1>6, <2>2 DEF Partly
  <2>4. Collects(c) /\ UNCHANGED <<response, spent>>
    BY <1>6 DEF Partly, Collects, IInv, Types
  <2>5. AskedInv(c)' /\ HeadersInv(c)'
    <3>1. CASE all = <<T("h1")>>
      <4>1. all[1].t = "h1"
        BY <3>1, MarksTyped
      <4> QED
        BY <1>1, <1>2, <2>2, <4>1, StatusLineHeld DEF Holds
    <3>2. CASE LineEnds(all)
      BY <1>1, <1>2, <1>3, <2>2, <2>4, <3>2, LineEndsHeld DEF Holds
    <3> QED
      BY <2>1, <3>1, <3>2
  <2>6. BodyInv(c)'
    BY <2>4 DEF BodyInv
  <2>7. uses'[c] = 1 => ~spent'[c]
    BY <1>2, <2>4 DEF IInv, ConnInv, StreamInv
  <2>8. Nothing /\ Accounted(c)' /\ ~Poolable(c)
    BY <1>2, <1>6, <2>5, <2>6, <2>7 DEF Partly, Accounted, Poolable
  <2> QED
    BY <2>3, <2>4, <2>8, AfterRead
<1>7. CASE Parsed(c, all, rest, r)
  <2>1. all[1].t = "h1"
    <3>1. Len(all) >= 2 /\ SubSeq(all, 1, 2) = Headers
      BY <1>7 DEF Parsed
    <3>2. SubSeq(all, 1, 2)[1] = all[1]
      BY <1>3, <3>1, SubSeqProperties, LenProperties, ElementOfSeq
    <3> QED
      BY <3>1, <3>2, MarksTyped
  <2>2. /\ asked[c] = Nil
        /\ all \o w = Headers \o Payload(current[c], shape[c])
    BY <1>1, <2>1, HeadersOfCurrent
  <2> QED
    BY <1>3, <1>7, <2>2, ParsedKeeps
<1> QED
  BY <1>1, <1>5, <1>6, <1>7

LEMMA OnReadableKeeps ==
  ASSUME IInv, NEW c \in Fetches, OnReadable(c)
  PROVE  IInv'
<1>1. PICK n \in 1..Len(wire[c]) :
        /\ wire' = [wire EXCEPT ![c] = SubSeq(wire[c], n + 1, Len(wire[c]))]
        /\ IF response[c].headers_done THEN OnBody(c, SubSeq(wire[c], 1, n))
           ELSE OnHeaders(c, SubSeq(wire[c], 1, n))
  BY DEF OnReadable
<1>2. PICK s \in Seq(Token) : s = wire[c]
  BY DEF IInv, Types
<1>3. n \in 1..Len(s)
  BY <1>2
<1>4. PICK ts, w : ts = SubSeq(s, 1, n) /\ w = SubSeq(s, n + 1, Len(s))
  OBVIOUS
<1>5. /\ ts \in Seq(Token) /\ Len(ts) = n /\ w \in Seq(Token) /\ ts \o w = s
  BY <1>3, <1>4, ReadSplits
<1>6. current[c] # Nil
  <2>1. s # <<>>
    BY <1>3
  <2> QED
    BY <1>2, <2>1 DEF IInv, ConnInv, EarlyInv
<1>7. Reading(c, ts, w)
  <2>1. Len(ts) >= 1
    BY <1>3, <1>5
  <2>2. wire' = [wire EXCEPT ![c] = w]
    BY <1>1, <1>2, <1>4
  <2> QED
    BY <1>2, <1>5, <1>6, <2>1, <2>2 DEF OnReadable, Reading
<1>8. IF response[c].headers_done THEN OnBody(c, ts) ELSE OnHeaders(c, ts)
  BY <1>1, <1>2, <1>4
<1> QED
  BY <1>7, <1>8, OnBodyKeeps, OnHeadersKeeps

-----------------------------------------------------------------------------
(* The client. *)

LEMMA InitIInv == Init => IInv
<1> SUFFICES ASSUME Init PROVE IInv
  OBVIOUS
<1>1. Types
  <2>1. NewResponse \in ResponseType
    BY FetchAssumption DEF FetchAssumption, NewResponse, ResponseType
  <2>2. [chunked |-> FALSE, units |-> 0] \in Shape
    BY FetchAssumption DEF FetchAssumption, Shape
  <2> QED
    BY <2>1, <2>2, PartTyped DEF Init, Types
<1>2. LookupInv
  BY FetchAssumption DEF Init, Dns!Init, LookupInv, Dns!TypeOK, Dns!OneVoice, FetchAssumption
<1>3. ConnectInv /\ PoolInv /\ CompletedInv
  BY DEF Init, ConnectInv, PoolInv, CompletedInv
<1>4. ASSUME NEW c \in Fetches PROVE ConnInv(c)
  BY DEF Init, ConnInv, EarlyInv, StreamInv, PromiseInv, NewResponse
<1> QED
  BY <1>1, <1>2, <1>3, <1>4 DEF IInv

LEMMA NextKeepsIInv == IInv /\ [Next]_vars => IInv'
<1> SUFFICES ASSUME IInv, [Next]_vars PROVE IInv'
  OBVIOUS
<1>1. ASSUME NEW f \in Fetches, Start(f) PROVE IInv'
  BY <1>1, StartKeeps
<1>2. ASSUME NEW f \in Fetches, Client(f) PROVE IInv'
  BY <1>2, OnAnswerKeeps, OnConnectedKeeps, OnHandshakeKeeps, OnReadableKeeps DEF Client
<1>3. ASSUME NEW f \in Fetches, Server(f) PROVE IInv'
  BY <1>3, AnswerQueryKeeps, FlightKeeps, RespondKeeps DEF Server
<1>4. ASSUME NEW f \in Fetches, Failure(f) PROVE IInv'
  BY <1>4, FailureKeeps DEF Failure
<1>5. CASE UNCHANGED vars
  <2>1. UNCHANGED <<dnsVars, connVars, sockets, promise, completed, protocol, calm, alive>>
    BY <1>5 DEF vars
  <2>2. LookupInv' /\ told' = told /\ alive' \in BOOLEAN
    BY <2>1, LookupsFrame DEF IInv, Types, connVars, dnsVars
  <2> QED
    BY <2>1, <2>2, ConnsFrame
<1> QED
  BY <1>1, <1>2, <1>3, <1>4, <1>5 DEF Next, Idle

\* The account of every byte, what it says of a connection, and what the
\* pool and the promises owe to it, hold at all times.
THEOREM Invariance == Spec => []IInv
BY InitIInv, NextKeepsIInv, PTL DEF Spec

\* Every field keeps its type, and a connection is SECURE only when the
\* handshake of TLS is done.
THEOREM TypesHold == Spec => []TypeOK
<1>1. IInv => TypeOK
  <2> SUFFICES ASSUME IInv PROVE TypeOK
    OBVIOUS
  <2>1. \A c \in Fetches : response[c].content_length \in 0..MaxUnits
    BY DEF IInv, Types, ResponseType
  <2>2. \A c \in Fetches : secure[c] => protocol = "https" /\ tls[c] = "done"
    BY DEF IInv, ConnInv, EarlyInv
  <2>3. \A c \in Fetches : held[c] = <<T("h1")>> \/ LineEnds(held[c])
    BY DEF IInv, Types, Part
  <2> QED
    BY <2>1, <2>2, <2>3 DEF IInv, Types, LookupInv, TypeOK
<1> QED
  BY <1>1, Invariance, PTL

\* A caller of lookup is told an address at most once, whatever the network
\* loses, repeats or sends late.
THEOREM LookupsSpeak == Spec => []LookupsSpeakOnce
<1>1. IInv => LookupsSpeakOnce
  BY DEF IInv, LookupInv, LookupsSpeakOnce
<1> QED
  BY <1>1, Invariance, PTL

\* However streams are cut and connections kept, a fetch is resolved by the
\* response to its own request, and a complete body is what the server sent.
THEOREM AnswersReach == Spec => []AnswersReachTheirFetch
<1>1. IInv => AnswersReachTheirFetch
  BY DEF IInv, ConnInv, PromiseInv, CompletedInv, AnswersReachTheirFetch
<1> QED
  BY <1>1, Invariance, PTL

\* The pool holds only connections a request can be written to.
THEOREM PoolIsIdle == Spec => []PooledIsIdle
<1>1. IInv => PooledIsIdle
  BY DEF IInv, PoolInv, Poolable, PooledIsIdle
<1> QED
  BY <1>1, Invariance, PTL
=============================================================================
