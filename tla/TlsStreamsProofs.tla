------------------------ MODULE TlsStreamsProofs -------------------------
(***************************************************************************)
(* What a callback of TlsProxy and a step of a peer do to one connection   *)
(* and its sockets, for any capacities and any sizes of records, chunks    *)
(* and writes: no unit is lost, repeated or reordered.  TlsProxyProofs     *)
(* builds the relay's invariant on it.                                     *)
(***************************************************************************)
EXTENDS TlsProxy, FiniteSetTheorems, SequenceTheorems, TLAPS

Arrived(w) == w.clientGot \o w.clientOut
Reached(w) == w.backendGot \o w.backendOut
Count(n)   == [i \in 1..n |-> i]

(* A pair's sockets: no buffer holds more than it can, and what has left   *)
(* for a peer is the beginning of a stream.                                *)
WireOK(w) ==
  /\ w \in WireType
  /\ Len(w.clientOut) <= Capacity /\ Len(w.backendOut) <= Capacity
  /\ Arrived(w) = Count(Len(Arrived(w)))
  /\ Reached(w) = Count(Len(Reached(w)))

(* The account of the backend's stream, until the client's side is reset.  *)
ToClientOK(k, w) ==
  w.client # "reset" =>
    (Arrived(w) \o RestOf(k.toClient, w.pushed)) \o w.backendIn = Count(w.unitsSent)

(* The account of the client's: the records not read are its last ones,    *)
(* and those before them have been passed on or are staged.                *)
Taken(w) == w.recordsSent - Len(Unread(w))

ToBackendOK(k, w) ==
  /\ Taken(w) >= 0
  /\ Unread(w) = [i \in 1..Len(Unread(w)) |-> Taken(w) + i]
  /\ w.backend # "reset" => Reached(w) \o k.toBackend = Count(Taken(w) * RecordUnits)

(* The handshake comes before everything else.                             *)
Greeting(w) ==
  IF w.shaken THEN w.helloSent
  ELSE w.ssl = <<>> /\ w.clientIn = (IF w.helloSent THEN <<Hello>> ELSE <<>>)

(* A connection object and its sockets between two callbacks.              *)
Fits(k, w) ==
  /\ k \in ConnType /\ WireOK(w)
  /\ w.pushed <= Len(k.toClient)
  /\ k.toBackend = <<>> \/ k.toClient = <<>>
  /\ ~k.backendEOF
  /\ Greeting(w)
  /\ ToClientOK(k, w)
  /\ ToBackendOK(k, w)

MasksOf(k) ==
  IF k.toBackend # <<>> THEN ToBackend
  ELSE IF k.toClient # <<>> THEN ToClient ELSE Relaying

(* What a callback may do to connection k.                                 *)
OutcomeOK(k, o) ==
  /\ o.end \in {"open", "close", "kill"}
  /\ o.end = "close" => WireOK(o.wire)
  /\ o.end = "open" =>
       /\ Fits(o.conn, o.wire)
       /\ o.masks = MasksOf(o.conn)
       /\ o.conn.clientFd = k.clientFd /\ o.conn.backendFd = k.backendFd

-----------------------------------------------------------------------------
(* Sequences. *)

LEMMA Sizes ==
  /\ RecordUnits \in Nat /\ RecordUnits >= 1 /\ Capacity \in Nat /\ Capacity >= 1
  /\ BufUnits \in Nat /\ BufUnits >= 1 /\ MaxRecords \in Nat /\ MaxUnits \in Nat
BY ProxyAssumption DEF ProxyAssumption

\* A sequence cut in two.
LEMMA CutInTwo ==
  ASSUME NEW s \in UnitSeqs, NEW n \in 0..Len(s)
  PROVE  /\ FirstOf(s, n) \in UnitSeqs /\ Len(FirstOf(s, n)) = n
         /\ RestOf(s, n) \in UnitSeqs /\ Len(RestOf(s, n)) = Len(s) - n
         /\ FirstOf(s, n) \o RestOf(s, n) = s
         /\ n = 0 => FirstOf(s, n) = <<>> /\ RestOf(s, n) = s
         /\ n = Len(s) => FirstOf(s, n) = s /\ RestOf(s, n) = <<>>
         /\ n < Len(s) => RestOf(s, n) # <<>>
<1>1. /\ s \in Seq(Unit) /\ Len(s) \in Nat /\ n \in Nat /\ n <= Len(s)
      /\ \A i \in 1..Len(s) : s[i] \in Unit
  BY LenProperties, ElementOfSeq DEF UnitSeqs
<1>2. Shorter(n, Len(s)) = n
  BY <1>1 DEF Shorter
<1>3. /\ SubSeq(s, 1, n) \in Seq(Unit) /\ Len(SubSeq(s, 1, n)) = n
  BY <1>1, SubSeqProperties
<1>4. /\ SubSeq(s, n + 1, Len(s)) \in Seq(Unit)
      /\ Len(SubSeq(s, n + 1, Len(s))) = Len(s) - n
  BY <1>1, SubSeqProperties
<1>5. SubSeq(s, 1, n) \o SubSeq(s, n + 1, Len(s)) = SubSeq(s, 1, Len(s))
  <2>1. /\ 1 \in 1..Len(s) + 1 /\ n \in 1 - 1..Len(s) /\ Len(s) \in n..Len(s)
    BY <1>1
  <2> QED
    BY <1>1, <2>1, ConcatAdjacentSubSeq
<1>6. SubSeq(s, 1, Len(s)) = s
  BY <1>1, SubSeqFull
<1>7. FirstOf(s, n) = SubSeq(s, 1, n) /\ RestOf(s, n) = SubSeq(s, n + 1, Len(s))
  BY <1>2 DEF FirstOf, RestOf
<1>8. /\ n = 0 => SubSeq(s, 1, n) = <<>>
      /\ n = Len(s) => SubSeq(s, n + 1, Len(s)) = <<>>
      /\ n < Len(s) => SubSeq(s, n + 1, Len(s)) # <<>>
  <2>1. \A x \in Seq(Unit) : Len(x) = 0 <=> x = <<>>
    BY EmptySeq
  <2>2. /\ n = 0 => Len(SubSeq(s, 1, n)) = 0
        /\ n = Len(s) => Len(SubSeq(s, n + 1, Len(s))) = 0
        /\ n < Len(s) => Len(SubSeq(s, n + 1, Len(s))) # 0
    BY <1>1, <1>3, <1>4
  <2> QED
    BY <1>3, <1>4, <2>1, <2>2
<1>9. n = 0 => SubSeq(s, n + 1, Len(s)) = s
  BY <1>6
<1> QED
  BY <1>3, <1>4, <1>5, <1>6, <1>7, <1>8, <1>9 DEF UnitSeqs

LEMMA RestAt ==
  ASSUME NEW s \in UnitSeqs, NEW n \in 0..Len(s)
  PROVE  \A i \in 1..Len(s) - n : RestOf(s, n)[i] = s[n + i]
<1>1. /\ Len(s) \in Nat /\ n \in Nat /\ n + 1 \in Int /\ Len(s) \in Int
      /\ \A i \in n + 1..Len(s) : s[i] \in Unit
  BY LenProperties, ElementOfSeq DEF UnitSeqs
<1>2. \A i \in 1..Len(s) - (n + 1) + 1 : SubSeq(s, n + 1, Len(s))[i] = s[n + 1 + i - 1]
  BY <1>1, SubSeqProperties
<1>3. ASSUME NEW i \in 1..Len(s) - n PROVE RestOf(s, n)[i] = s[n + i]
  <2>1. i \in 1..Len(s) - (n + 1) + 1 /\ n + 1 + i - 1 = n + i
    BY <1>1
  <2>2. SubSeq(s, n + 1, Len(s))[i] = s[n + 1 + i - 1]
    BY <1>2, <2>1
  <2> QED
    BY <2>1, <2>2, Zenon DEF RestOf
<1> QED
  BY <1>3

\* Cutting off n of what was left after p.
LEMMA CutTwice ==
  ASSUME NEW s \in UnitSeqs, NEW p \in 0..Len(s), NEW n \in 0..Len(RestOf(s, p))
  PROVE  RestOf(RestOf(s, p), n) = RestOf(s, p + n)
<1>1. PICK r \in UnitSeqs : r = RestOf(s, p) /\ Len(r) = Len(s) - p
  BY CutInTwo
<1>2. /\ Len(s) \in Nat /\ Len(r) \in Nat /\ n \in 0..Len(r) /\ p + n \in 0..Len(s)
      /\ n \in Nat /\ p \in Nat
  BY <1>1, LenProperties DEF UnitSeqs
<1>3. PICK a \in UnitSeqs : a = RestOf(r, n) /\ Len(a) = Len(r) - n
  BY <1>2, CutInTwo
<1>4. PICK b \in UnitSeqs : b = RestOf(s, p + n) /\ Len(b) = Len(s) - (p + n)
  BY <1>2, CutInTwo
<1>5. /\ \A i \in 1..Len(s) - p : r[i] = s[p + i]
      /\ \A i \in 1..Len(r) - n : a[i] = r[n + i]
      /\ \A i \in 1..Len(s) - (p + n) : b[i] = s[p + n + i]
  BY <1>1, <1>2, <1>3, <1>4, RestAt
<1>6. Len(a) = Len(b)
  BY <1>1, <1>2, <1>3, <1>4
<1>7. ASSUME NEW i \in 1..Len(a) PROVE a[i] = b[i]
  <2>1. /\ i \in 1..Len(r) - n /\ n + i \in 1..Len(s) - p
        /\ i \in 1..Len(s) - (p + n) /\ p + (n + i) = p + n + i
    BY <1>1, <1>2, <1>3
  <2>2. r[n + i] = s[p + (n + i)]
    BY <1>5, <2>1
  <2>3. a[i] = r[n + i] /\ b[i] = s[p + n + i]
    BY <1>5, <2>1
  <2> QED
    BY <2>1, <2>2, <2>3, Zenon
<1> QED
  BY <1>1, <1>3, <1>4, <1>6, <1>7, SeqEqual DEF UnitSeqs

\* What is sent fits the buffer, and no more is sent than there is.
LEMMA SendFits ==
  ASSUME NEW out \in UnitSeqs, NEW data \in UnitSeqs, Len(out) <= Capacity,
         NEW n, n = Shorter(Capacity - Len(out), Len(data))
  PROVE  /\ n \in 0..Len(data) /\ Len(data) \in Nat
         /\ out \o FirstOf(data, n) \in UnitSeqs
         /\ Len(out \o FirstOf(data, n)) <= Capacity
<1>1. /\ Len(out) \in Nat /\ Len(data) \in Nat /\ Capacity \in Nat
  BY Sizes, LenProperties DEF UnitSeqs
<1>2. n \in 0..Len(data) /\ n <= Capacity - Len(out)
  BY <1>1 DEF Shorter
<1>3. PICK f \in UnitSeqs : f = FirstOf(data, n) /\ Len(f) = n
  BY <1>2, CutInTwo
<1>4. out \o f \in UnitSeqs /\ Len(out \o f) = Len(out) + Len(f)
  BY ConcatProperties DEF UnitSeqs
<1> QED
  BY <1>1, <1>2, <1>3, <1>4

LEMMA Joined ==
  ASSUME NEW a \in UnitSeqs, NEW b \in UnitSeqs
  PROVE  a \o b \in UnitSeqs /\ Len(a \o b) = Len(a) + Len(b)
BY ConcatProperties DEF UnitSeqs

LEMMA Associative ==
  \A a, b, c \in UnitSeqs : (a \o b) \o c = a \o (b \o c)
BY ConcatAssociative DEF UnitSeqs

\* The beginning of a count is a count.
LEMMA CountPrefix ==
  ASSUME NEW a \in UnitSeqs, NEW b \in UnitSeqs, NEW n \in Nat, a \o b = Count(n)
  PROVE  a = Count(Len(a))
<1>1. Len(a) \in Nat /\ Len(b) \in Nat /\ Len(a \o b) = Len(a) + Len(b)
  BY LenProperties, ConcatProperties DEF UnitSeqs
<1>2. Len(Count(n)) = n /\ \A i \in 1..n : Count(n)[i] = i
  BY DEF Count
<1>3. Len(a) <= n
  BY <1>1, <1>2
<1>4. \A i \in 1..Len(a) : (a \o b)[i] = a[i]
  <2>1. \A i \in 1..Len(a) + Len(b) : (a \o b)[i] = IF i <= Len(a) THEN a[i] ELSE b[i - Len(a)]
    BY ConcatProperties DEF UnitSeqs
  <2>2. \A i \in 1..Len(a) : i \in 1..Len(a) + Len(b) /\ i <= Len(a)
    BY <1>1
  <2> QED
    BY <2>1, <2>2, Zenon
<1>5. \A i \in 1..Len(a) : a[i] = i
  BY <1>2, <1>3, <1>4, <1>1
<1>6. a = [i \in 1..Len(a) |-> a[i]]
  BY DEF UnitSeqs
<1> QED
  BY <1>5, <1>6 DEF Count

LEMMA CountMore ==
  ASSUME NEW n \in Nat
  PROVE  Append(Count(n), n + 1) = Count(n + 1)
BY DEF Count

LEMMA UnitsTyped ==
  ASSUME NEW r \in Records
  PROVE  Units(r) \in UnitSeqs
<1>1. CASE r = Hello
  BY <1>1, EmptySeq DEF Units, UnitSeqs
<1>2. CASE r # Hello
  <2>1. r \in Nat /\ 1 <= r /\ r <= MaxRecords /\ RecordUnits \in Nat /\ MaxRecords \in Nat
        /\ MaxUnits \in Nat
    BY <1>2, Sizes DEF Hello, Records
  <2>2. /\ r * RecordUnits \in Nat /\ MaxRecords * RecordUnits \in Nat
        /\ (r - 1) * RecordUnits \in Nat
        /\ (r - 1) * RecordUnits + RecordUnits = r * RecordUnits
        /\ r * RecordUnits <= MaxRecords * RecordUnits
    BY <2>1
  <2>3. \A i \in 1..RecordUnits : (r - 1) * RecordUnits + i \in Unit
    <3>1. PICK x \in Nat, y \in Nat : /\ x = (r - 1) * RecordUnits /\ y = MaxRecords * RecordUnits
                                      /\ x + RecordUnits <= y
      BY <2>1, <2>2
    <3>2. \A i \in 1..RecordUnits : x + i \in 1..MaxUnits + y
      BY <2>1, <3>1
    <3> QED
      BY <3>1, <3>2, Zenon DEF Unit
  <2>4. Units(r) = [i \in 1..RecordUnits |-> (r - 1) * RecordUnits + i]
    BY <1>2 DEF Units
  <2> HIDE DEF Unit
  <2> QED
    BY <2>1, <2>3, <2>4 DEF UnitSeqs
<1> QED
  BY <1>1, <1>2

-----------------------------------------------------------------------------
(* The sockets of a pair. *)

LEMMA WireTyped ==
  ASSUME NEW w, WireOK(w)
  PROVE  /\ w.clientGot \in UnitSeqs /\ w.clientOut \in UnitSeqs
         /\ w.backendGot \in UnitSeqs /\ w.backendOut \in UnitSeqs
         /\ w.backendIn \in UnitSeqs
         /\ w.clientIn \in Seq(Records) /\ w.ssl \in Seq(Records)
         /\ w.pushed \in Nat /\ w.unitsSent \in Nat /\ w.recordsSent \in Nat
         /\ Len(w.clientOut) <= Capacity /\ Len(w.backendOut) <= Capacity
         /\ Arrived(w) \in UnitSeqs /\ Reached(w) \in UnitSeqs
         /\ w.client \in {"up", "closed", "reset"}
         /\ w.shaken \in BOOLEAN /\ w.helloSent \in BOOLEAN
<1>1. w \in WireType
  BY DEF WireOK
<1>2. /\ w.clientGot \in UnitSeqs /\ w.clientOut \in UnitSeqs
      /\ w.backendGot \in UnitSeqs /\ w.backendOut \in UnitSeqs
      /\ w.backendIn \in UnitSeqs
      /\ w.clientIn \in Seq(Records) /\ w.ssl \in Seq(Records)
      /\ w.pushed \in Nat /\ w.unitsSent \in 0..MaxUnits
      /\ w.recordsSent \in 0..MaxRecords
      /\ w.client \in {"up", "closed", "reset"}
      /\ w.shaken \in BOOLEAN /\ w.helloSent \in BOOLEAN
  BY <1>1 DEF WireType, Records
<1>3. Arrived(w) \in UnitSeqs /\ Reached(w) \in UnitSeqs
  BY <1>2, Joined DEF Arrived, Reached
<1>4. w.unitsSent \in Nat /\ w.recordsSent \in Nat
  BY <1>2, Sizes
<1> QED
  BY <1>2, <1>3, <1>4 DEF WireOK

LEMMA ConnTyped ==
  ASSUME NEW k, k \in ConnType
  PROVE  /\ k.toBackend \in UnitSeqs /\ k.toClient \in UnitSeqs
         /\ k.backendEOF \in BOOLEAN /\ k.secure \in BOOLEAN
BY DEF ConnType

LEMMA EmptyUnits ==
  /\ <<>> \in UnitSeqs /\ <<>> \in Seq(Records)
  /\ \A s \in UnitSeqs : s = <<>> <=> Len(s) = 0
  /\ \A s \in UnitSeqs : s \o <<>> = s /\ <<>> \o s = s
  /\ \A s \in Seq(Records) : s \o <<>> = s /\ <<>> \o s = s
BY EmptySeq, ConcatEmptySeq DEF UnitSeqs

LEMMA UnreadTyped ==
  ASSUME NEW w, WireOK(w)
  PROVE  Unread(w) \in Seq(Records) /\ Len(Unread(w)) \in Nat
<1>1. w.clientIn \in Seq(Records) /\ w.ssl \in Seq(Records)
  BY WireTyped
<1>2. Unread(w) \in Seq(Records)
  BY <1>1, ConcatProperties, EmptyUnits DEF Unread
<1> QED
  BY <1>2, LenProperties

\* SSL's own reading and remembering is no concern of the other buffers.
SameStreams(w, v) ==
  /\ v.client = w.client /\ v.backend = w.backend
  /\ v.clientGot = w.clientGot /\ v.clientOut = w.clientOut
  /\ v.backendGot = w.backendGot /\ v.backendOut = w.backendOut
  /\ v.backendIn = w.backendIn /\ v.pushed = w.pushed
  /\ v.unitsSent = w.unitsSent /\ v.recordsSent = w.recordsSent
  /\ v.helloSent = w.helloSent

LEMMA SameStreamsOK ==
  ASSUME NEW w, NEW v, WireOK(w), v \in WireType, SameStreams(w, v)
  PROVE  /\ WireOK(v) /\ Arrived(v) = Arrived(w) /\ Reached(v) = Reached(w)
         /\ \A k : ToClientOK(k, w) => ToClientOK(k, v)
<1>1. Arrived(v) = Arrived(w) /\ Reached(v) = Reached(w)
  BY DEF SameStreams, Arrived, Reached
<1> QED
  BY <1>1 DEF WireOK, SameStreams, ToClientOK

LEMMA SameStreamsFit ==
  ASSUME NEW k, NEW w, NEW v, Fits(k, w), v \in WireType, SameStreams(w, v),
         Greeting(v), Unread(v) = Unread(w)
  PROVE  Fits(k, v)
<1>1. /\ WireOK(v) /\ Reached(v) = Reached(w) /\ ToClientOK(k, v)
  BY SameStreamsOK DEF Fits
<1>2. Taken(v) = Taken(w)
  BY DEF Taken, SameStreams
<1>3. ToBackendOK(k, v)
  BY <1>1, <1>2 DEF Fits, ToBackendOK, SameStreams
<1>4. v.pushed <= Len(k.toClient)
  BY DEF Fits, SameStreams
<1> QED
  BY <1>1, <1>3, <1>4 DEF Fits

\* SSL fills its buffer.
LEMMA FilledOK ==
  ASSUME NEW w, WireOK(w)
  PROVE  /\ Filled(w) \in WireType /\ SameStreams(w, Filled(w))
         /\ Filled(w).shaken = w.shaken
         /\ Filled(w).ssl = (IF w.ssl # <<>> THEN w.ssl ELSE w.clientIn)
         /\ Filled(w).clientIn = (IF w.ssl # <<>> THEN w.clientIn ELSE <<>>)
<1> DEFINE v == [w EXCEPT !.ssl = w.clientIn, !.clientIn = <<>>]
<1>1. w \in WireType /\ w.clientIn \in Seq(Records) /\ <<>> \in Seq(Records)
  BY WireTyped, EmptySeq DEF WireOK
<1>2. /\ v \in WireType /\ SameStreams(w, v)
      /\ v.shaken = w.shaken /\ v.ssl = w.clientIn /\ v.clientIn = <<>>
  BY <1>1 DEF WireType, SameStreams
<1>3. SameStreams(w, w)
  BY DEF SameStreams
<1> HIDE DEF v
<1>4. Filled(w) = (IF w.ssl # <<>> THEN w ELSE v)
  BY DEF Filled, v
<1> QED
  BY <1>1, <1>2, <1>3, <1>4

LEMMA FilledFits ==
  ASSUME NEW k, NEW w, Fits(k, w), w.shaken
  PROVE  Fits(k, Filled(w)) /\ Filled(w).shaken
<1>1. PICK f : f = Filled(w)
  OBVIOUS
<1>2. /\ f \in WireType /\ SameStreams(w, f) /\ f.shaken
      /\ f.ssl = (IF w.ssl # <<>> THEN w.ssl ELSE w.clientIn)
      /\ f.clientIn = (IF w.ssl # <<>> THEN w.clientIn ELSE <<>>)
  BY <1>1, FilledOK DEF Fits
<1>3. w.clientIn \in Seq(Records) /\ w.ssl \in Seq(Records)
  BY WireTyped DEF Fits
<1>4. f.ssl \o f.clientIn = w.ssl \o w.clientIn
  BY <1>2, <1>3, EmptyUnits
<1>5. Unread(f) = Unread(w)
  BY <1>2, <1>4 DEF Unread
<1>6. Greeting(f)
  BY <1>2 DEF Greeting, SameStreams, Fits
<1>7. Fits(k, f)
  BY <1>2, <1>5, <1>6, SameStreamsFit
<1> QED
  BY <1>1, <1>2, <1>7

\* The handshake takes the client's half of it and no more.
LEMMA ShakeFits ==
  ASSUME NEW k, NEW w, Fits(k, w)
  PROVE  /\ Fits(k, Shake(w)) /\ SameStreams(w, Shake(w))
         /\ w.clientIn = <<>> => Shake(w).clientIn = <<>>
<1>1. CASE w.shaken
  BY <1>1 DEF Shake, SameStreams
<1>2. CASE ~w.shaken
  <2>1. PICK f : f = Filled(w)
    OBVIOUS
  <2>2. /\ w.ssl = <<>> /\ w.clientIn = (IF w.helloSent THEN <<Hello>> ELSE <<>>)
    BY <1>2 DEF Fits, Greeting
  <2>3. /\ f \in WireType /\ SameStreams(w, f) /\ ~f.shaken
        /\ f.ssl = w.clientIn /\ f.clientIn = <<>>
    BY <1>2, <2>1, <2>2, FilledOK DEF Fits
  <2>4. CASE f.ssl = <<>>
    <3>1. Shake(w) = f
      BY <1>2, <2>1, <2>4 DEF Shake
    <3>2. ~w.helloSent
      <4>1. <<Hello>> # <<>>
        OBVIOUS
      <4> QED
        BY <2>2, <2>3, <2>4, <4>1
    <3>3. Greeting(f)
      BY <2>3, <2>4, <3>2 DEF Greeting, SameStreams
    <3>4. Unread(f) = Unread(w)
      BY <1>2, <2>3 DEF Unread
    <3> QED
      BY <2>3, <3>1, <3>3, <3>4, SameStreamsFit
  <2>5. CASE f.ssl # <<>>
    <3>1. PICK g : g = [f EXCEPT !.shaken = TRUE, !.ssl = Tail(@)]
      OBVIOUS
    <3>2. w.helloSent /\ f.ssl = <<Hello>>
      BY <2>2, <2>3, <2>5
    <3>3. Tail(f.ssl) = <<>> /\ <<>> \in Seq(Records)
      BY <3>2, EmptyUnits
    <3>4. g = [f EXCEPT !.shaken = TRUE, !.ssl = <<>>]
      BY <3>1, <3>3
    <3>5. /\ g \in WireType /\ SameStreams(f, g) /\ g.shaken
          /\ g.ssl = <<>> /\ g.clientIn = <<>>
      BY <2>3, <3>3, <3>4 DEF WireType, SameStreams
    <3>6. SameStreams(w, g)
      BY <2>3, <3>5 DEF SameStreams
    <3>7. Greeting(g)
      BY <3>2, <3>5, <3>6 DEF Greeting, SameStreams
    <3>8. Unread(g) = Unread(w)
      BY <1>2, <3>5, <3>3, EmptyUnits DEF Unread
    <3>9. Shake(w) = g
      BY <1>2, <2>1, <2>5, <3>1 DEF Shake
    <3> QED
      BY <3>5, <3>6, <3>7, <3>8, <3>9, SameStreamsFit
  <2> QED
    BY <2>4, <2>5
<1> QED
  BY <1>1, <1>2, WireTyped DEF Fits

-----------------------------------------------------------------------------
(* Sending. *)

\* send() to the backend, of what is staged.
LEMMA SendOK ==
  ASSUME NEW k, NEW w, Fits(k, w), w.backend # "reset",
         NEW n, n = Shorter(Capacity - Len(w.backendOut), Len(k.toBackend))
  PROVE  /\ Fits([k EXCEPT !.toBackend = RestOf(k.toBackend, n)],
                 [w EXCEPT !.backendOut = @ \o FirstOf(k.toBackend, n)])
         /\ n = Len(k.toBackend) => RestOf(k.toBackend, n) = <<>>
         /\ n # Len(k.toBackend) => RestOf(k.toBackend, n) # <<>> /\ k.toBackend # <<>>
<1> DEFINE data == k.toBackend
<1>1. /\ k \in ConnType /\ w \in WireType /\ WireOK(w)
      /\ data \in UnitSeqs /\ k.toClient \in UnitSeqs
      /\ w.backendOut \in UnitSeqs /\ w.backendGot \in UnitSeqs
      /\ Reached(w) \in UnitSeqs /\ Arrived(w) \in UnitSeqs
      /\ Len(w.backendOut) <= Capacity
  BY WireTyped, ConnTyped DEF Fits, WireOK
<1>2. /\ n \in 0..Len(data) /\ Len(data) \in Nat
      /\ w.backendOut \o FirstOf(data, n) \in UnitSeqs
      /\ Len(w.backendOut \o FirstOf(data, n)) <= Capacity
  <2> HIDE DEF data
  <2> QED
    BY <1>1, SendFits DEF data
<1>3. PICK f \in UnitSeqs, g \in UnitSeqs :
        /\ f = FirstOf(data, n) /\ g = RestOf(data, n) /\ f \o g = data
        /\ n = Len(data) => g = <<>>
        /\ n < Len(data) => g # <<>>
        /\ Len(g) = Len(data) - n
  <2> HIDE DEF data
  <2>1. /\ FirstOf(data, n) \in UnitSeqs /\ RestOf(data, n) \in UnitSeqs
        /\ FirstOf(data, n) \o RestOf(data, n) = data
        /\ n = Len(data) => RestOf(data, n) = <<>>
        /\ n < Len(data) => RestOf(data, n) # <<>>
        /\ Len(RestOf(data, n)) = Len(data) - n
    BY <1>1, <1>2, CutInTwo
  <2> QED
    BY <2>1, Zenon
<1>4. n # Len(data) => g # <<>> /\ data # <<>>
  <2> HIDE DEF data
  <2>1. n # Len(data) => n < Len(data) /\ Len(data) # 0
    BY <1>2
  <2> QED
    BY <1>1, <1>3, <2>1, EmptyUnits
<1>5. PICK j, v : /\ j = [k EXCEPT !.toBackend = g]
                  /\ v = [w EXCEPT !.backendOut = w.backendOut \o f]
  OBVIOUS
<1>6. /\ j \in ConnType /\ j.toBackend = g /\ j.toClient = k.toClient
      /\ j.backendEOF = k.backendEOF
  BY <1>1, <1>3, <1>5 DEF ConnType
<1>7. /\ v \in WireType /\ v.backendOut = w.backendOut \o f
      /\ v.client = w.client /\ v.backend = w.backend
      /\ v.clientGot = w.clientGot /\ v.clientOut = w.clientOut
      /\ v.backendGot = w.backendGot /\ v.backendIn = w.backendIn
      /\ v.pushed = w.pushed /\ v.unitsSent = w.unitsSent
      /\ v.recordsSent = w.recordsSent /\ v.helloSent = w.helloSent
      /\ v.shaken = w.shaken /\ v.ssl = w.ssl /\ v.clientIn = w.clientIn
  <2>1. w.backendOut \o f \in UnitSeqs
    BY <1>2, <1>3
  <2> QED
    BY <1>1, <1>5, <2>1 DEF WireType
<1>8. Arrived(v) = Arrived(w) /\ Unread(v) = Unread(w) /\ Taken(v) = Taken(w)
  BY <1>7 DEF Arrived, Unread, Taken
<1>9. Reached(v) = Reached(w) \o f /\ Reached(v) \in UnitSeqs
  <2>1. \A x, y, z \in UnitSeqs : (x \o y) \o z = x \o (y \o z)
    BY Associative
  <2>2. \A y, z \in UnitSeqs : (w.backendGot \o y) \o z = w.backendGot \o (y \o z)
    BY <1>1, <2>1
  <2>3. \A z \in UnitSeqs : (w.backendGot \o w.backendOut) \o z
                               = w.backendGot \o (w.backendOut \o z)
    BY <1>1, <2>2
  <2>4. (w.backendGot \o w.backendOut) \o f = w.backendGot \o (w.backendOut \o f)
    BY <1>3, <2>3
  <2>5. Reached(v) = Reached(w) \o f
    BY <1>7, <2>4 DEF Reached
  <2> QED
    BY <1>1, <1>3, <2>5, Joined
<1>10. Reached(v) \o g = Reached(w) \o data
  <2>1. \A x, y, z \in UnitSeqs : (x \o y) \o z = x \o (y \o z)
    BY Associative
  <2>2. \A y, z \in UnitSeqs : (Reached(w) \o y) \o z = Reached(w) \o (y \o z)
    BY <1>1, <2>1
  <2>3. (Reached(w) \o f) \o g = Reached(w) \o (f \o g)
    BY <1>3, <2>2
  <2> QED
    BY <1>3, <1>9, <2>3
<1>11. Reached(w) \o data = Count(Taken(w) * RecordUnits) /\ Taken(w) * RecordUnits \in Nat
  <2>1. Reached(w) \o data = Count(Taken(w) * RecordUnits) /\ Taken(w) >= 0
    BY DEF Fits, ToBackendOK
  <2>2. Taken(w) \in Nat
    BY <1>1, <2>1, WireTyped, UnreadTyped DEF Taken
  <2> QED
    BY <2>1, <2>2, Sizes
<1>12. Reached(v) = Count(Len(Reached(v)))
  <2>1. PICK m \in Nat : m = Taken(w) * RecordUnits /\ Reached(v) \o g = Count(m)
    BY <1>10, <1>11
  <2> QED
    BY <1>3, <1>9, <2>1, CountPrefix
<1>13. WireOK(v)
  BY <1>1, <1>2, <1>3, <1>7, <1>8, <1>12 DEF WireOK
<1>14. ToBackendOK(j, v)
  <2>1. ToBackendOK(k, w)
    BY DEF Fits
  <2>2. Reached(v) \o j.toBackend = Count(Taken(v) * RecordUnits)
    BY <1>6, <1>8, <1>10, <1>11
  <2> QED
    BY <1>8, <2>1, <2>2 DEF ToBackendOK
<1>15. ToClientOK(j, v)
  BY <1>6, <1>7, <1>8 DEF Fits, ToClientOK
<1>16. Greeting(v) /\ v.pushed <= Len(j.toClient) /\ ~j.backendEOF
  BY <1>6, <1>7 DEF Fits, Greeting
<1>17. j.toBackend = <<>> \/ j.toClient = <<>>
  <2>1. k.toBackend = <<>> => j.toBackend = <<>>
    <3>1. data = <<>> => n = Len(data)
      BY <1>4
    <3> QED
      BY <1>3, <1>6, <3>1
  <2> QED
    BY <1>6, <2>1 DEF Fits
<1>18. Fits(j, v)
  BY <1>6, <1>13, <1>14, <1>15, <1>16, <1>17 DEF Fits
<1> QED
  BY <1>3, <1>4, <1>5, <1>18

\* SSL_write to the client, of what it has not pushed yet.
LEMMA PushOK ==
  ASSUME NEW k, NEW w, Fits(k, w), w.client # "reset",
         NEW n, n = Shorter(Capacity - Len(w.clientOut), Len(k.toClient) - w.pushed)
  PROVE  /\ Fits(k, [w EXCEPT !.clientOut = @ \o FirstOf(RestOf(k.toClient, w.pushed), n),
                              !.pushed = @ + n])
         /\ n \in Nat
<1>1. /\ k \in ConnType /\ w \in WireType /\ WireOK(w)
      /\ k.toClient \in UnitSeqs /\ Len(k.toClient) \in Nat
      /\ w.clientOut \in UnitSeqs /\ w.clientGot \in UnitSeqs
      /\ w.backendIn \in UnitSeqs
      /\ Reached(w) \in UnitSeqs /\ Arrived(w) \in UnitSeqs
      /\ Len(w.clientOut) <= Capacity
      /\ w.pushed \in 0..Len(k.toClient) /\ w.pushed \in Nat /\ w.unitsSent \in Nat
  <2>1. /\ k \in ConnType /\ w \in WireType /\ WireOK(w) /\ w.pushed <= Len(k.toClient)
    BY DEF Fits, WireOK
  <2>2. k.toClient \in UnitSeqs /\ Len(k.toClient) \in Nat
    BY <2>1, ConnTyped, LenProperties DEF UnitSeqs
  <2>3. w.pushed \in Nat
    BY <2>1, WireTyped
  <2> QED
    BY <2>1, <2>2, <2>3, WireTyped
<1>2. PICK r \in UnitSeqs : r = RestOf(k.toClient, w.pushed) /\ Len(r) = Len(k.toClient) - w.pushed
  BY <1>1, CutInTwo
<1>3. /\ n \in 0..Len(r) /\ n \in Nat
      /\ w.clientOut \o FirstOf(r, n) \in UnitSeqs
      /\ Len(w.clientOut \o FirstOf(r, n)) <= Capacity
  <2>1. n = Shorter(Capacity - Len(w.clientOut), Len(r))
    BY <1>2
  <2>2. /\ n \in 0..Len(r) /\ Len(r) \in Nat
        /\ w.clientOut \o FirstOf(r, n) \in UnitSeqs
        /\ Len(w.clientOut \o FirstOf(r, n)) <= Capacity
    BY <1>1, <2>1, SendFits
  <2>3. n \in Nat
    BY <2>2
  <2> QED
    BY <2>2, <2>3, Zenon
<1>4. PICK f \in UnitSeqs, q \in Nat : f = FirstOf(r, n) /\ q = w.pushed + n
  BY <1>1, <1>3, CutInTwo
<1>5. q \in 0..Len(k.toClient)
  BY <1>1, <1>2, <1>3, <1>4
<1>6. PICK g \in UnitSeqs : g = RestOf(k.toClient, q) /\ f \o g = r
  <2> n \in 0..Len(r)
    BY <1>3
  <2>1. RestOf(r, n) \in UnitSeqs /\ FirstOf(r, n) \o RestOf(r, n) = r
    BY CutInTwo
  <2>2. RestOf(r, n) = RestOf(k.toClient, q)
    BY <1>1, <1>2, <1>3, <1>4, CutTwice
  <2> QED
    BY <1>4, <2>1, <2>2
<1>7. PICK v : v = [w EXCEPT !.clientOut = w.clientOut \o f, !.pushed = q]
  OBVIOUS
<1>8. /\ v \in WireType /\ v.clientOut = w.clientOut \o f /\ v.pushed = q
      /\ v.client = w.client /\ v.backend = w.backend
      /\ v.clientGot = w.clientGot /\ v.backendOut = w.backendOut
      /\ v.backendGot = w.backendGot /\ v.backendIn = w.backendIn
      /\ v.unitsSent = w.unitsSent
      /\ v.recordsSent = w.recordsSent /\ v.helloSent = w.helloSent
      /\ v.shaken = w.shaken /\ v.ssl = w.ssl /\ v.clientIn = w.clientIn
  <2>1. w.clientOut \o f \in UnitSeqs
    BY <1>3, <1>4
  <2> QED
    BY <1>1, <1>4, <1>7, <2>1 DEF WireType
<1>9. Reached(v) = Reached(w) /\ Unread(v) = Unread(w) /\ Taken(v) = Taken(w)
  BY <1>8 DEF Reached, Unread, Taken
<1>10. Arrived(v) = Arrived(w) \o f /\ Arrived(v) \in UnitSeqs
  <2>1. \A x, y, z \in UnitSeqs : (x \o y) \o z = x \o (y \o z)
    BY Associative
  <2>2. \A y, z \in UnitSeqs : (w.clientGot \o y) \o z = w.clientGot \o (y \o z)
    BY <1>1, <2>1
  <2>3. \A z \in UnitSeqs : (w.clientGot \o w.clientOut) \o z
                               = w.clientGot \o (w.clientOut \o z)
    BY <1>1, <2>2
  <2>4. (w.clientGot \o w.clientOut) \o f = w.clientGot \o (w.clientOut \o f)
    BY <1>4, <2>3
  <2>5. Arrived(v) = Arrived(w) \o f
    BY <1>8, <2>4 DEF Arrived
  <2> QED
    BY <1>1, <1>4, <2>5, Joined
<1>11. (Arrived(v) \o g) \o w.backendIn = Count(w.unitsSent)
  <2>1. (Arrived(w) \o r) \o w.backendIn = Count(w.unitsSent)
    BY <1>2 DEF Fits, ToClientOK
  <2>2. \A x, y, z \in UnitSeqs : (x \o y) \o z = x \o (y \o z)
    BY Associative
  <2>3. \A y, z \in UnitSeqs : (Arrived(w) \o y) \o z = Arrived(w) \o (y \o z)
    BY <1>1, <2>2
  <2>4. (Arrived(w) \o f) \o g = Arrived(w) \o (f \o g)
    BY <1>4, <1>6, <2>3
  <2> QED
    BY <1>6, <1>10, <2>1, <2>4
<1>12. Arrived(v) = Count(Len(Arrived(v)))
  <2>1. \A x, y, z \in UnitSeqs : (x \o y) \o z = x \o (y \o z)
    BY Associative
  <2>2. \A y, z \in UnitSeqs : (Arrived(v) \o y) \o z = Arrived(v) \o (y \o z)
    BY <1>10, <2>1
  <2>3. Arrived(v) \o (g \o w.backendIn) = Count(w.unitsSent)
    BY <1>1, <1>6, <1>11, <2>2
  <2>4. PICK b \in UnitSeqs : b = g \o w.backendIn
    BY <1>1, <1>6, Joined
  <2> QED
    BY <1>1, <1>10, <2>3, <2>4, CountPrefix
<1>13. WireOK(v)
  BY <1>1, <1>3, <1>4, <1>8, <1>9, <1>12 DEF WireOK
<1>14. ToBackendOK(k, v)
  BY <1>8, <1>9 DEF Fits, ToBackendOK
<1>15. ToClientOK(k, v)
  BY <1>6, <1>8, <1>11 DEF ToClientOK
<1>16. Greeting(v) /\ v.pushed <= Len(k.toClient)
  BY <1>1, <1>5, <1>8 DEF Fits, Greeting
<1>17. Fits(k, v)
  BY <1>13, <1>14, <1>15, <1>16 DEF Fits
<1> QED
  BY <1>2, <1>3, <1>4, <1>7, <1>17

\* The chunk has been pushed to its end.
LEMMA DoneOK ==
  ASSUME NEW k, NEW w, Fits(k, w), w.pushed = Len(k.toClient)
  PROVE  Fits([k EXCEPT !.toClient = <<>>], [w EXCEPT !.pushed = 0])
<1>1. PICK j, v : j = [k EXCEPT !.toClient = <<>>] /\ v = [w EXCEPT !.pushed = 0]
  OBVIOUS
<1>2. /\ k \in ConnType /\ w \in WireType /\ WireOK(w) /\ k.toClient \in UnitSeqs
      /\ Len(k.toClient) \in Nat /\ <<>> \in UnitSeqs
  BY ConnTyped, EmptyUnits, LenProperties DEF Fits, WireOK, UnitSeqs
<1>3. /\ j \in ConnType /\ j.toClient = <<>> /\ j.toBackend = k.toBackend
      /\ j.backendEOF = k.backendEOF
  BY <1>1, <1>2 DEF ConnType
<1>4. /\ v \in WireType /\ v.pushed = 0
      /\ v.client = w.client /\ v.backend = w.backend
      /\ v.clientGot = w.clientGot /\ v.clientOut = w.clientOut
      /\ v.backendGot = w.backendGot /\ v.backendOut = w.backendOut
      /\ v.backendIn = w.backendIn /\ v.unitsSent = w.unitsSent
      /\ v.recordsSent = w.recordsSent /\ v.helloSent = w.helloSent
      /\ v.shaken = w.shaken /\ v.ssl = w.ssl /\ v.clientIn = w.clientIn
  BY <1>1, <1>2 DEF WireType
<1>5. /\ Reached(v) = Reached(w) /\ Arrived(v) = Arrived(w)
      /\ Unread(v) = Unread(w) /\ Taken(v) = Taken(w)
  BY <1>4 DEF Reached, Arrived, Unread, Taken
<1>6. RestOf(k.toClient, w.pushed) = <<>> /\ RestOf(j.toClient, v.pushed) = <<>>
  <2>1. Len(k.toClient) \in 0..Len(k.toClient) /\ Len(<<>>) = 0 /\ 0 \in 0..Len(<<>>)
    BY <1>2
  <2>2. RestOf(k.toClient, Len(k.toClient)) = <<>>
    BY <1>2, <2>1, CutInTwo
  <2>3. RestOf(<<>>, 0) = <<>>
    BY <1>2, <2>1, CutInTwo
  <2> QED
    BY <1>3, <1>4, <2>2, <2>3
<1>7. WireOK(v)
  BY <1>4, <1>5 DEF Fits, WireOK
<1>8. ToBackendOK(j, v)
  BY <1>3, <1>4, <1>5 DEF Fits, ToBackendOK
<1>9. ToClientOK(j, v)
  BY <1>4, <1>5, <1>6 DEF Fits, ToClientOK
<1>10. Greeting(v) /\ v.pushed <= Len(j.toClient)
  BY <1>3, <1>4 DEF Fits, Greeting
<1>11. Fits(j, v)
  BY <1>3, <1>7, <1>8, <1>9, <1>10 DEF Fits
<1> QED
  BY <1>1, <1>11

-----------------------------------------------------------------------------
(* Reading a record. *)

\* A count goes on.
LEMMA CountOn ==
  ASSUME NEW n \in Nat, NEW m \in Nat,
         NEW s \in UnitSeqs, s = Count(n),
         NEW t \in UnitSeqs, t = [i \in 1..m |-> n + i]
  PROVE  s \o t = Count(n + m)
<1>1. /\ Len(s) = n /\ \A i \in 1..n : s[i] = i
      /\ Len(t) = m /\ \A i \in 1..m : t[i] = n + i
  BY DEF Count
<1>2. PICK u \in UnitSeqs : u = s \o t
  BY Joined
<1>3. /\ Len(u) = Len(s) + Len(t)
      /\ \A i \in 1..Len(s) + Len(t) : u[i] = IF i <= Len(s) THEN s[i] ELSE t[i - Len(s)]
  BY <1>2, ConcatProperties DEF UnitSeqs
<1>4. Len(u) = n + m
  BY <1>1, <1>3
<1>5. \A i \in 1..n + m : u[i] = i
  <2> TAKE i \in 1..n + m
  <2>1. u[i] = IF i <= n THEN s[i] ELSE t[i - n]
    BY <1>1, <1>3
  <2>2. CASE i <= n
    BY <1>1, <2>1, <2>2
  <2>3. CASE ~(i <= n)
    <3>1. i - n \in 1..m /\ n + (i - n) = i
      BY <2>3
    <3>2. t[i - n] = n + (i - n)
      BY <1>1, <3>1
    <3> QED
      BY <2>1, <2>3, <3>1, <3>2
  <2> QED
    BY <2>2, <2>3
<1>6. Count(n + m) \in Seq(Nat) /\ Len(Count(n + m)) = n + m
      /\ \A i \in 1..n + m : Count(n + m)[i] = i
  BY DEF Count
<1>7. u \in Seq(Unit) /\ Unit \subseteq Nat
  BY Sizes DEF UnitSeqs, Unit
<1>8. u \in Seq(Nat)
  BY <1>7, SeqMonotonic
<1>9. u = Count(n + m)
  <2>1. PICK v \in Seq(Nat) : v = Count(n + m) /\ Len(v) = n + m /\ \A i \in 1..n + m : v[i] = i
    BY <1>6
  <2>2. Len(u) = Len(v) /\ \A i \in 1..Len(u) : u[i] = v[i]
    BY <1>4, <1>5, <2>1
  <2> QED
    BY <1>8, <2>1, <2>2, SeqEqual
<1> QED
  BY <1>2, <1>9

\* The first of two sequences gives its head away.
LEMMA TailOfFirst ==
  ASSUME NEW s \in Seq(Records), NEW t \in Seq(Records), s # <<>>
  PROVE  /\ Tail(s) \in Seq(Records) /\ Head(s) \in Records
         /\ (s \o t)[1] = Head(s) /\ Len(s \o t) >= 1
         /\ Len(Tail(s) \o t) = Len(s \o t) - 1
         /\ \A i \in 1..Len(Tail(s) \o t) : (Tail(s) \o t)[i] = (s \o t)[i + 1]
<1>1. PICK u \in Seq(Records) : u = Tail(s) /\ Len(u) = Len(s) - 1
                                /\ \A i \in 1..Len(u) : u[i] = s[i + 1]
  BY HeadTailProperties
<1>2. Len(s) \in Nat /\ Len(s) >= 1 /\ Len(t) \in Nat /\ Head(s) = s[1] /\ Head(s) \in Records
  BY LenProperties, HeadTailProperties, EmptySeq
<1>3. /\ Len(s \o t) = Len(s) + Len(t)
      /\ \A i \in 1..Len(s) + Len(t) : (s \o t)[i] = IF i <= Len(s) THEN s[i] ELSE t[i - Len(s)]
  BY ConcatProperties
<1>4. /\ Len(u \o t) = Len(u) + Len(t)
      /\ \A i \in 1..Len(u) + Len(t) : (u \o t)[i] = IF i <= Len(u) THEN u[i] ELSE t[i - Len(u)]
  BY ConcatProperties
<1>5. (s \o t)[1] = Head(s)
  <2>1. 1 \in 1..Len(s) + Len(t) /\ 1 <= Len(s)
    BY <1>2
  <2> QED
    BY <1>2, <1>3, <2>1
<1>6. \A i \in 1..Len(u \o t) : (u \o t)[i] = (s \o t)[i + 1]
  <2> TAKE i \in 1..Len(u \o t)
  <2>1. /\ i \in 1..Len(u) + Len(t) /\ i + 1 \in 1..Len(s) + Len(t)
        /\ i <= Len(u) <=> i + 1 <= Len(s)
        /\ i - Len(u) = i + 1 - Len(s)
    BY <1>1, <1>2, <1>4
  <2>2. /\ (u \o t)[i] = IF i <= Len(u) THEN u[i] ELSE t[i - Len(u)]
        /\ (s \o t)[i + 1] = IF i + 1 <= Len(s) THEN s[i + 1] ELSE t[i + 1 - Len(s)]
    BY <1>3, <1>4, <2>1
  <2>3. i <= Len(u) => u[i] = s[i + 1]
    BY <1>1, <1>2
  <2> QED
    BY <2>1, <2>2, <2>3
<1> QED
  BY <1>1, <1>2, <1>3, <1>4, <1>5, <1>6

LEMMA UnitsOfRecord ==
  ASSUME NEW m \in Nat, m + 1 \in Records
  PROVE  /\ Units(m + 1) \in UnitSeqs /\ Units(m + 1) # <<>>
         /\ m * RecordUnits \in Nat
         /\ m * RecordUnits + RecordUnits = (m + 1) * RecordUnits
         /\ Units(m + 1) = [i \in 1..RecordUnits |-> m * RecordUnits + i]
<1>1. RecordUnits \in Nat /\ RecordUnits >= 1
  BY Sizes
<1>2. m * RecordUnits \in Nat /\ m * RecordUnits + RecordUnits = (m + 1) * RecordUnits
  BY <1>1
<1>3. Units(m + 1) = [i \in 1..RecordUnits |-> m * RecordUnits + i]
  <2>1. m + 1 # Hello /\ m + 1 - 1 = m
    BY DEF Hello
  <2> QED
    BY <2>1 DEF Units
<1>4. Units(m + 1) \in UnitSeqs
  BY UnitsTyped
<1>5. Len(Units(m + 1)) = RecordUnits
  BY <1>1, <1>3
<1>6. Units(m + 1) # <<>>
  BY <1>1, <1>4, <1>5, EmptyUnits
<1> QED
  BY <1>2, <1>3, <1>4, <1>6

\* One SSL_read takes the next record, and its units are all staged.
LEMMA TakeOK ==
  ASSUME NEW k, NEW w, Fits(k, w), w.shaken, w.ssl # <<>>,
         k.toBackend = <<>>, k.toClient = <<>>
  PROVE  /\ Fits([k EXCEPT !.toBackend = Units(Head(w.ssl))],
                 [w EXCEPT !.ssl = Tail(w.ssl)])
         /\ Units(Head(w.ssl)) # <<>>
<1>1. /\ k \in ConnType /\ w \in WireType /\ WireOK(w) /\ Reached(w) \in UnitSeqs
      /\ w.ssl \in Seq(Records) /\ w.clientIn \in Seq(Records)
      /\ w.recordsSent \in Nat
  BY WireTyped DEF Fits, WireOK
<1>2. Unread(w) = w.ssl \o w.clientIn
  BY DEF Unread
<1>3. /\ Tail(w.ssl) \in Seq(Records) /\ Head(w.ssl) \in Records
      /\ Unread(w)[1] = Head(w.ssl) /\ Len(Unread(w)) >= 1
      /\ Len(Tail(w.ssl) \o w.clientIn) = Len(Unread(w)) - 1
      /\ \A i \in 1..Len(Tail(w.ssl) \o w.clientIn) :
           (Tail(w.ssl) \o w.clientIn)[i] = Unread(w)[i + 1]
  <2>1. PICK s \in Seq(Records), t \in Seq(Records) : s = w.ssl /\ t = w.clientIn
    BY <1>1
  <2>2. s # <<>>
    BY <2>1
  <2>3. /\ Tail(s) \in Seq(Records) /\ Head(s) \in Records
        /\ (s \o t)[1] = Head(s) /\ Len(s \o t) >= 1
        /\ Len(Tail(s) \o t) = Len(s \o t) - 1
        /\ \A i \in 1..Len(Tail(s) \o t) : (Tail(s) \o t)[i] = (s \o t)[i + 1]
    BY <2>2, TailOfFirst
  <2> QED
    BY <1>2, <2>1, <2>3, Zenon
<1>4. Len(Unread(w)) \in Nat
  BY <1>1, UnreadTyped
<1>5. PICK v : v = [w EXCEPT !.ssl = Tail(w.ssl)]
  OBVIOUS
<1>6. /\ v \in WireType /\ SameStreams(w, v)
      /\ v.shaken /\ v.clientIn = w.clientIn /\ v.ssl = Tail(w.ssl)
  BY <1>1, <1>3, <1>5 DEF WireType, SameStreams
<1>7. PICK m \in Nat : m = Taken(w)
  BY <1>1, <1>4 DEF Fits, ToBackendOK, Taken
<1>8. /\ Unread(w) = [i \in 1..Len(Unread(w)) |-> m + i]
      /\ w.backend # "reset" => Reached(w) \o <<>> = Count(m * RecordUnits)
  BY <1>7 DEF Fits, ToBackendOK
<1>9. Head(w.ssl) = m + 1 /\ m + 1 \in Records
  <2>1. 1 \in 1..Len(Unread(w))
    BY <1>3, <1>4
  <2>2. Unread(w)[1] = m + 1
    BY <1>8, <2>1
  <2> QED
    BY <1>3, <2>2
<1>10. Unread(v) = Tail(w.ssl) \o w.clientIn /\ Taken(v) = m + 1
  <2>1. Unread(v) = Tail(w.ssl) \o w.clientIn
    BY <1>6 DEF Unread
  <2>2. Taken(v) = w.recordsSent - (Len(Unread(w)) - 1)
    BY <1>3, <1>6, <2>1 DEF Taken, SameStreams
  <2>3. m = w.recordsSent - Len(Unread(w))
    BY <1>7 DEF Taken
  <2> QED
    BY <1>1, <1>4, <2>1, <2>2, <2>3
<1>11. Unread(v) = [i \in 1..Len(Unread(v)) |-> m + 1 + i]
  <2>1. PICK u \in Seq(Records), n \in Nat : u = Unread(v) /\ n = Len(u) /\ n = Len(Unread(w)) - 1
    <3>1. Unread(v) \in Seq(Records)
      BY <1>1, <1>3, <1>10, ConcatProperties
    <3>2. Len(Unread(v)) \in Nat /\ Len(Unread(v)) = Len(Unread(w)) - 1
      BY <1>3, <1>10, <3>1, LenProperties
    <3> QED
      BY <3>1, <3>2
  <2>2. \A i \in 1..n : u[i] = m + 1 + i
    <3> TAKE i \in 1..n
    <3>1. u[i] = Unread(w)[i + 1]
      BY <1>3, <1>10, <2>1
    <3>2. i + 1 \in 1..Len(Unread(w)) /\ m + (i + 1) = m + 1 + i
      BY <1>4, <2>1
    <3>3. Unread(w)[i + 1] = m + (i + 1)
      BY <1>8, <3>2
    <3> QED
      BY <3>1, <3>2, <3>3
  <2>3. u = [i \in 1..n |-> u[i]]
    <3>1. u = [i \in 1..Len(u) |-> u[i]]
      OBVIOUS
    <3> QED
      BY <2>1, <3>1
  <2>4. u = [i \in 1..n |-> m + 1 + i]
    BY <2>2, <2>3
  <2> QED
    BY <2>1, <2>4
<1>12. /\ Units(m + 1) \in UnitSeqs /\ Units(m + 1) # <<>>
       /\ m * RecordUnits \in Nat
       /\ m * RecordUnits + RecordUnits = (m + 1) * RecordUnits
       /\ Units(m + 1) = [i \in 1..RecordUnits |-> m * RecordUnits + i]
  BY <1>9, UnitsOfRecord
<1>13. PICK j : j = [k EXCEPT !.toBackend = Units(m + 1)]
  OBVIOUS
<1>14. /\ j \in ConnType /\ j.toBackend = Units(m + 1) /\ j.toClient = k.toClient
       /\ j.backendEOF = k.backendEOF
  BY <1>1, <1>12, <1>13 DEF ConnType
<1>15. WireOK(v) /\ Reached(v) = Reached(w) /\ Arrived(v) = Arrived(w)
  BY <1>1, <1>6, SameStreamsOK
<1>16. w.backend # "reset" => Reached(w) \o Units(m + 1) = Count((m + 1) * RecordUnits)
  <2> HAVE w.backend # "reset"
  <2>1. PICK x \in Nat, s \in UnitSeqs, t \in UnitSeqs :
          /\ x = m * RecordUnits /\ s = Reached(w) /\ t = Units(m + 1)
    BY <1>1, <1>12
  <2>2. s = Count(x)
    BY <1>8, <2>1, EmptyUnits
  <2>3. t = [i \in 1..RecordUnits |-> x + i]
    BY <1>12, <2>1
  <2> RecordUnits \in Nat
    BY Sizes
  <2>4. s \o t = Count(x + RecordUnits)
    BY <2>2, <2>3, CountOn
  <2> QED
    BY <1>12, <2>1, <2>4
<1>17. ToBackendOK(j, v)
  <2>0. Taken(v) = m + 1
    BY <1>10
  <2>1. Unread(v) = [i \in 1..Len(Unread(v)) |-> Taken(v) + i] /\ Taken(v) >= 0
    BY <1>11, <2>0
  <2>2. v.backend # "reset" => Reached(v) \o j.toBackend = Count(Taken(v) * RecordUnits)
    BY <1>6, <1>10, <1>14, <1>15, <1>16 DEF SameStreams
  <2> QED
    BY <2>1, <2>2 DEF ToBackendOK
<1>18. ToClientOK(j, v)
  BY <1>6, <1>14, <1>15 DEF Fits, ToClientOK, SameStreams
<1>19. Greeting(v) /\ v.pushed <= Len(j.toClient)
  BY <1>6, <1>14 DEF Fits, Greeting, SameStreams
<1>20. Fits(j, v)
  BY <1>14, <1>15, <1>17, <1>18, <1>19 DEF Fits
<1> QED
  BY <1>5, <1>9, <1>12, <1>13, <1>20

-----------------------------------------------------------------------------
(* The outcomes. *)

\* One recv() from the backend stages a chunk.
LEMMA StageOK ==
  ASSUME NEW k, NEW w, Fits(k, w), k.toBackend = <<>>, k.toClient = <<>>,
         NEW data, data = FirstOf(w.backendIn, BufUnits)
  PROVE  /\ Fits([k EXCEPT !.toClient = data],
                 [w EXCEPT !.backendIn = RestOf(w.backendIn, Len(data))])
         /\ data = <<>> => w.backendIn = <<>>
<1>1. /\ k \in ConnType /\ w \in WireType /\ WireOK(w)
      /\ w.backendIn \in UnitSeqs /\ Len(w.backendIn) \in Nat
      /\ Arrived(w) \in UnitSeqs /\ <<>> \in UnitSeqs
  BY WireTyped, EmptyUnits, LenProperties DEF Fits, WireOK, UnitSeqs
<1>2. w.pushed = 0
  <2>1. w.pushed \in Nat /\ w.pushed <= 0
    BY WireTyped, EmptySeq DEF Fits
  <2> QED
    BY <2>1
<1>3. PICK m \in 0..Len(w.backendIn) : /\ m = Shorter(BufUnits, Len(w.backendIn))
                                       /\ m = 0 => Len(w.backendIn) = 0
  BY <1>1, Sizes DEF Shorter
<1>4. data = FirstOf(w.backendIn, m)
  <2>1. Shorter(m, Len(w.backendIn)) = m
    BY <1>1, <1>3 DEF Shorter
  <2> QED
    BY <1>3, <2>1 DEF FirstOf
<1>5. /\ data \in UnitSeqs /\ Len(data) = m
      /\ RestOf(w.backendIn, m) \in UnitSeqs
      /\ data \o RestOf(w.backendIn, m) = w.backendIn
  <2>1. PICK s \in UnitSeqs : s = w.backendIn
    BY <1>1
  <2> m \in 0..Len(s)
    BY <2>1
  <2>2. /\ FirstOf(s, m) \in UnitSeqs /\ Len(FirstOf(s, m)) = m
        /\ RestOf(s, m) \in UnitSeqs /\ FirstOf(s, m) \o RestOf(s, m) = s
    BY CutInTwo
  <2> QED
    BY <1>4, <2>1, <2>2
<1>6. data = <<>> => w.backendIn = <<>>
  <2>1. data = <<>> => Len(w.backendIn) = 0
    BY <1>3, <1>5, EmptyUnits
  <2> QED
    BY <1>1, <2>1, EmptyUnits
<1>7. PICK j, v : /\ j = [k EXCEPT !.toClient = data]
                  /\ v = [w EXCEPT !.backendIn = RestOf(w.backendIn, m)]
  OBVIOUS
<1>8. /\ j \in ConnType /\ j.toClient = data /\ j.toBackend = <<>>
      /\ j.backendEOF = k.backendEOF
  BY <1>1, <1>5, <1>7 DEF ConnType
<1>9. /\ v \in WireType /\ v.backendIn = RestOf(w.backendIn, m) /\ v.pushed = 0
      /\ v.client = w.client /\ v.backend = w.backend
      /\ v.clientGot = w.clientGot /\ v.clientOut = w.clientOut
      /\ v.backendGot = w.backendGot /\ v.backendOut = w.backendOut
      /\ v.unitsSent = w.unitsSent
      /\ v.recordsSent = w.recordsSent /\ v.helloSent = w.helloSent
      /\ v.shaken = w.shaken /\ v.ssl = w.ssl /\ v.clientIn = w.clientIn
  BY <1>1, <1>2, <1>5, <1>7 DEF WireType
<1>10. /\ Reached(v) = Reached(w) /\ Arrived(v) = Arrived(w)
       /\ Unread(v) = Unread(w) /\ Taken(v) = Taken(w)
  BY <1>9 DEF Reached, Arrived, Unread, Taken
<1>11. WireOK(v)
  BY <1>1, <1>9, <1>10 DEF WireOK
<1>12. ToBackendOK(j, v)
  BY <1>8, <1>9, <1>10 DEF Fits, ToBackendOK
<1>13. ToClientOK(j, v)
  <2> SUFFICES ASSUME w.client # "reset"
               PROVE  (Arrived(w) \o RestOf(data, 0)) \o RestOf(w.backendIn, m)
                        = Count(w.unitsSent)
    BY <1>8, <1>9, <1>10 DEF ToClientOK
  <2>1. (Arrived(w) \o RestOf(<<>>, 0)) \o w.backendIn = Count(w.unitsSent)
    BY <1>2 DEF Fits, ToClientOK
  <2>2. RestOf(<<>>, 0) = <<>> /\ RestOf(data, 0) = data
    <3>1. \A s \in UnitSeqs : 0 \in 0..Len(s)
      BY LenProperties DEF UnitSeqs
    <3>2. \A s \in UnitSeqs : RestOf(s, 0) = s
      BY <3>1, CutInTwo
    <3> QED
      BY <1>1, <1>5, <3>2
  <2>3. Arrived(w) \o w.backendIn = Count(w.unitsSent)
    BY <1>1, <2>1, <2>2, EmptyUnits
  <2>4. (Arrived(w) \o data) \o RestOf(w.backendIn, m) = Arrived(w) \o w.backendIn
    <3>1. \A x, y, z \in UnitSeqs : (x \o y) \o z = x \o (y \o z)
      BY Associative
    <3>2. \A y, z \in UnitSeqs : (Arrived(w) \o y) \o z = Arrived(w) \o (y \o z)
      BY <1>1, <3>1
    <3>3. \A z \in UnitSeqs : (Arrived(w) \o data) \o z = Arrived(w) \o (data \o z)
      BY <1>5, <3>2
    <3>4. (Arrived(w) \o data) \o RestOf(w.backendIn, m)
            = Arrived(w) \o (data \o RestOf(w.backendIn, m))
      BY <1>5, <3>3
    <3> QED
      BY <1>5, <3>4
  <2> QED
    BY <2>2, <2>3, <2>4
<1>14. Greeting(v) /\ v.pushed <= Len(j.toClient)
  BY <1>3, <1>5, <1>8, <1>9 DEF Fits, Greeting
<1>15. Fits(j, v)
  BY <1>8, <1>11, <1>12, <1>13, <1>14 DEF Fits
<1> QED
  BY <1>5, <1>6, <1>7, <1>15

LEMMA WriteToBackendOK ==
  ASSUME NEW k, NEW w, NEW data,
         Fits([k EXCEPT !.toBackend = data], w), k \in ConnType,
         k.toBackend = <<>>, data # <<>>,
         NEW o \in WriteToBackend(k, w, data, Relaying)
  PROVE  /\ OutcomeOK(k, o)
         /\ o.end = "open" => o.conn.toClient = <<>>
<1>1. PICK j : j = [k EXCEPT !.toBackend = data]
  OBVIOUS
<1>2. /\ j.toBackend = data /\ j.toClient = k.toClient
      /\ j.clientFd = k.clientFd /\ j.backendFd = k.backendFd
      /\ \A x : [k EXCEPT !.toBackend = x] = [j EXCEPT !.toBackend = x]
      /\ k = [j EXCEPT !.toBackend = <<>>]
  BY <1>1 DEF ConnType
<1>3. Fits(j, w) /\ WireOK(w) /\ j.toClient = <<>>
  BY <1>1, <1>2 DEF Fits
<1>4. CASE w.backend = "reset"
  <2>1. \/ o = Outcome(j, w, ToBackend, "open")
        \/ o = Outcome(k, w, <<>>, "kill")
    BY <1>1, <1>4 DEF WriteToBackend, OnReset
  <2>2. MasksOf(j) = ToBackend
    BY <1>2 DEF MasksOf
  <2>3. CASE o = Outcome(j, w, ToBackend, "open")
    <3>1. /\ o.end = "open" /\ o.conn = j /\ o.wire = w /\ o.masks = ToBackend
      BY <2>3 DEF Outcome
    <3> QED
      BY <1>2, <1>3, <2>2, <3>1 DEF OutcomeOK
  <2>4. CASE o = Outcome(k, w, <<>>, "kill")
    BY <2>4 DEF OutcomeOK, Outcome
  <2> QED
    BY <2>1, <2>3, <2>4
<1>5. CASE w.backend # "reset"
  <2>1. PICK n : n = Shorter(Capacity - Len(w.backendOut), Len(data))
    OBVIOUS
  <2>2. PICK v : v = [w EXCEPT !.backendOut = @ \o FirstOf(data, n)]
    OBVIOUS
  <2>3. /\ Fits([j EXCEPT !.toBackend = RestOf(data, n)], v)
        /\ n = Len(data) => RestOf(data, n) = <<>>
        /\ n # Len(data) => RestOf(data, n) # <<>>
    <3>1. n = Shorter(Capacity - Len(w.backendOut), Len(j.toBackend))
      BY <1>2, <2>1
    <3>2. /\ Fits([j EXCEPT !.toBackend = RestOf(j.toBackend, n)],
                  [w EXCEPT !.backendOut = @ \o FirstOf(j.toBackend, n)])
          /\ n = Len(j.toBackend) => RestOf(j.toBackend, n) = <<>>
          /\ n # Len(j.toBackend) => RestOf(j.toBackend, n) # <<>>
      BY <1>3, <1>5, <3>1, SendOK
    <3> QED
      BY <1>2, <2>2, <3>2
  <2>4. PICK i : i = [k EXCEPT !.toBackend = RestOf(data, n)]
    OBVIOUS
  <2>5. o = IF n = Len(data) THEN Outcome(k, v, Relaying, "open")
            ELSE Outcome(i, v, ToBackend, "open")
    BY <1>5, <2>1, <2>2, <2>4 DEF WriteToBackend
  <2>6. /\ i.clientFd = k.clientFd /\ i.backendFd = k.backendFd
        /\ i.toClient = <<>> /\ i.toBackend = RestOf(data, n) /\ Fits(i, v)
    BY <1>2, <1>3, <2>3, <2>4 DEF ConnType
  <2>7. CASE n = Len(data)
    <3>1. Fits(k, v)
      BY <1>2, <2>3, <2>7
    <3>2. MasksOf(k) = Relaying
      BY <1>2, <1>3 DEF MasksOf
    <3> QED
      BY <1>2, <1>3, <2>5, <2>7, <3>1, <3>2 DEF OutcomeOK, Outcome
  <2>8. CASE n # Len(data)
    <3>1. MasksOf(i) = ToBackend
      BY <2>3, <2>6, <2>8 DEF MasksOf
    <3> QED
      BY <2>5, <2>6, <2>8, <3>1 DEF OutcomeOK, Outcome
  <2> QED
    BY <2>7, <2>8
<1> QED
  BY <1>4, <1>5

LEMMA FlushToBackendOK ==
  ASSUME NEW k, NEW w, Fits(k, w), k.toBackend # <<>>,
         NEW o \in FlushToBackend(k, w, ToBackend)
  PROVE  /\ OutcomeOK(k, o)
         /\ o.end = "close" => w.backend = "reset"
<1>1. k \in ConnType /\ WireOK(w) /\ k.toClient = <<>>
  BY DEF Fits
<1>2. CASE w.backend = "reset"
  <2>1. o \in {Outcome(k, w, <<>>, "close"), Outcome(k, w, <<>>, "kill")}
    BY <1>2 DEF FlushToBackend, OnReset, Closed
  <2> QED
    BY <1>1, <1>2, <2>1 DEF OutcomeOK, Outcome
<1>3. CASE w.backend # "reset"
  <2>1. PICK n : n = Shorter(Capacity - Len(w.backendOut), Len(k.toBackend))
    OBVIOUS
  <2>2. PICK v, i : /\ v = [w EXCEPT !.backendOut = @ \o FirstOf(k.toBackend, n)]
                    /\ i = [k EXCEPT !.toBackend = RestOf(@, n)]
    OBVIOUS
  <2>3. /\ Fits(i, v)
        /\ n = Len(k.toBackend) => RestOf(k.toBackend, n) = <<>>
        /\ n # Len(k.toBackend) => RestOf(k.toBackend, n) # <<>>
    BY <1>3, <2>1, <2>2, SendOK
  <2>4. /\ i.clientFd = k.clientFd /\ i.backendFd = k.backendFd
        /\ i.toClient = <<>> /\ i.toBackend = RestOf(k.toBackend, n)
    BY <1>1, <2>2 DEF ConnType
  <2>5. o = Outcome(i, v, IF n = Len(k.toBackend) THEN Relaying ELSE ToBackend, "open")
    BY <1>3, <2>1, <2>2 DEF FlushToBackend
  <2>6. MasksOf(i) = IF n = Len(k.toBackend) THEN Relaying ELSE ToBackend
    BY <2>3, <2>4 DEF MasksOf
  <2> QED
    BY <2>3, <2>4, <2>5, <2>6 DEF OutcomeOK, Outcome
<1> QED
  BY <1>2, <1>3

\* The interest of a pair whose chunk for the client is not all pushed.
Waiting(p) == IF p THEN ToClient ELSE Relaying

LEMMA TryWriteToClientOK ==
  ASSUME NEW k, NEW w, Fits(k, w), k.toBackend = <<>>, k.toClient # <<>>,
         NEW p \in BOOLEAN,
         NEW o \in TryWriteToClient(k, w, p, Waiting(p))
  PROVE  /\ OutcomeOK(k, o)
         /\ o.end = "open" => o.conn.toBackend = <<>>
         /\ o.end = "close" => w.client # "up"
<1>1. PICK s : s = Shake(w)
  OBVIOUS
<1>2. /\ Fits(k, s) /\ WireOK(s) /\ s.client = w.client
  BY <1>1, ShakeFits DEF Fits, SameStreams
<1>3. (IF p THEN Waiting(p) ELSE ToClient) = ToClient /\ MasksOf(k) = ToClient
  BY DEF Waiting, MasksOf
<1>4. k \in ConnType /\ ~k.backendEOF
  BY DEF Fits
<1>5. CASE ~s.shaken
  <2>1. o = IF Broken(s) THEN Closed(k, s) ELSE Outcome(k, s, ToClient, "open")
    BY <1>1, <1>3, <1>5 DEF TryWriteToClient
  <2>2. CASE Broken(s)
    BY <1>2, <2>1, <2>2 DEF OutcomeOK, Outcome, Closed, Broken
  <2>3. CASE ~Broken(s)
    BY <1>2, <1>3, <2>1, <2>3 DEF OutcomeOK, Outcome
  <2> QED
    BY <2>2, <2>3
<1>6. CASE s.shaken /\ s.client = "reset"
  <2>1. o \in {Outcome(k, s, <<>>, "close"), Outcome(k, s, <<>>, "kill")}
    BY <1>1, <1>6 DEF TryWriteToClient, OnReset, Closed
  <2> QED
    BY <1>2, <1>6, <2>1 DEF OutcomeOK, Outcome
<1>7. CASE s.shaken /\ s.client # "reset"
  <2>1. PICK n : n = Shorter(Capacity - Len(s.clientOut), Len(k.toClient) - s.pushed)
    OBVIOUS
  <2>2. PICK v : v = [s EXCEPT !.clientOut = @ \o FirstOf(RestOf(k.toClient, s.pushed), n),
                               !.pushed = @ + n]
    OBVIOUS
  <2>3. Fits(k, v)
    BY <1>2, <1>7, <2>1, <2>2, PushOK
  <2>4. PICK j, u : j = [k EXCEPT !.toClient = <<>>] /\ u = [v EXCEPT !.pushed = 0]
    OBVIOUS
  <2>5. o = IF v.pushed < Len(k.toClient) THEN Outcome(k, v, ToClient, "open")
            ELSE Outcome(j, u, IF p THEN Relaying ELSE Waiting(p), "open")
    <3>1. ~(p /\ k.backendEOF)
      BY <1>4
    <3>2. o \in (IF v.pushed < Len(k.toClient)
                 THEN {Outcome(k, v, IF p THEN Waiting(p) ELSE ToClient, "open")}
                 ELSE {Outcome(j, u, IF p THEN Relaying ELSE Waiting(p), "open")})
      BY <1>1, <1>7, <2>1, <2>2, <2>4, <3>1 DEF TryWriteToClient
    <3> QED
      BY <1>3, <3>2
  <2>6. CASE v.pushed < Len(k.toClient)
    BY <1>3, <2>3, <2>5, <2>6 DEF OutcomeOK, Outcome
  <2>7. CASE ~(v.pushed < Len(k.toClient))
    <3>1. v.pushed = Len(k.toClient)
      <4>1. v.pushed \in Nat /\ v.pushed <= Len(k.toClient) /\ Len(k.toClient) \in Nat
        BY <1>4, <2>3, WireTyped, ConnTyped, LenProperties DEF Fits, UnitSeqs
      <4> QED
        BY <2>7, <4>1
    <3>2. Fits(j, u)
      BY <2>3, <2>4, <3>1, DoneOK
    <3>3. /\ j.clientFd = k.clientFd /\ j.backendFd = k.backendFd
          /\ j.toClient = <<>> /\ j.toBackend = <<>>
      BY <1>4, <2>4 DEF ConnType
    <3>4. MasksOf(j) = Relaying
      BY <3>3 DEF MasksOf
    <3>5. o = Outcome(j, u, Relaying, "open")
      BY <2>5, <2>7 DEF Waiting
    <3> QED
      BY <3>2, <3>3, <3>4, <3>5 DEF OutcomeOK, Outcome
  <2> QED
    BY <2>6, <2>7
<1> QED
  BY <1>5, <1>6, <1>7

LEMMA ReadFromBackendOK ==
  ASSUME NEW k, NEW w, Fits(k, w), k.toBackend = <<>>, k.toClient = <<>>,
         NEW o \in ReadFromBackend(k, w, Relaying)
  PROVE  /\ OutcomeOK(k, o)
         /\ o.end = "open" => o.conn.toBackend = <<>>
         /\ o.end = "close" /\ w.client = "up" => o.wire = w /\ w.backendIn = <<>>
<1>1. PICK data : data = FirstOf(w.backendIn, BufUnits)
  OBVIOUS
<1>2. CASE data # <<>>
  <2>1. PICK j, v : /\ j = [k EXCEPT !.toClient = data]
                    /\ v = [w EXCEPT !.backendIn = RestOf(w.backendIn, Len(data))]
    OBVIOUS
  <2>2. Fits(j, v)
    BY <1>1, <2>1, StageOK
  <2>3. /\ j.clientFd = k.clientFd /\ j.backendFd = k.backendFd
        /\ j.toClient = data /\ j.toBackend = <<>> /\ v.client = w.client
    BY <2>1 DEF Fits, ConnType, WireOK, WireType
  <2>4. o \in TryWriteToClient(j, v, FALSE, Waiting(FALSE))
    BY <1>1, <1>2, <2>1 DEF ReadFromBackend, Waiting
  <2>5. /\ OutcomeOK(j, o)
        /\ o.end = "open" => o.conn.toBackend = <<>>
        /\ o.end = "close" => w.client # "up"
    BY <1>2, <2>2, <2>3, <2>4, TryWriteToClientOK
  <2> QED
    BY <2>3, <2>5 DEF OutcomeOK
<1>3. CASE data = <<>>
  <2>1. o \in {Outcome(k, w, Relaying, "open"), Outcome(k, w, <<>>, "close")}
    BY <1>1, <1>3 DEF ReadFromBackend, Closed
  <2>2. w.backendIn = <<>>
    BY <1>1, <1>3, StageOK
  <2>3. MasksOf(k) = Relaying /\ WireOK(w)
    BY DEF MasksOf, Fits
  <2> QED
    BY <2>1, <2>2, <2>3 DEF OutcomeOK, Outcome
<1> QED
  BY <1>2, <1>3

LEMMA ReadFromClientOK ==
  ASSUME NEW k, NEW w, Fits(k, w), w.shaken, k.toBackend = <<>>, k.toClient = <<>>,
         NEW o \in ReadFromClient(k, w, Relaying)
  PROVE  /\ OutcomeOK(k, o)
         /\ o.end = "open" => o.conn.toClient = <<>>
<1>1. PICK f : f = Filled(w)
  OBVIOUS
<1>2. Fits(k, f) /\ f.shaken /\ WireOK(f) /\ k \in ConnType
  BY <1>1, FilledFits DEF Fits
<1>3. CASE f.ssl # <<>>
  <2>1. PICK v, data : v = [f EXCEPT !.ssl = Tail(f.ssl)] /\ data = Units(Head(f.ssl))
    OBVIOUS
  <2>2. Fits([k EXCEPT !.toBackend = data], v) /\ data # <<>>
    BY <1>2, <1>3, <2>1, TakeOK
  <2>3. o \in WriteToBackend(k, v, data, Relaying)
    BY <1>1, <1>3, <2>1 DEF ReadFromClient
  <2> QED
    BY <1>2, <2>2, <2>3, WriteToBackendOK
<1>4. CASE f.ssl = <<>>
  <2>1. o \in {Outcome(k, f, Relaying, "open"), Outcome(k, f, <<>>, "close")}
    BY <1>1, <1>4 DEF ReadFromClient, Closed
  <2>2. MasksOf(k) = Relaying
    BY DEF MasksOf
  <2> QED
    BY <1>2, <2>1, <2>2 DEF OutcomeOK, Outcome
<1> QED
  BY <1>3, <1>4

\* That SSL_accept has returned changes no buffer.
LEMMA SecureOK ==
  ASSUME NEW k, NEW w, Fits(k, w)
  PROVE  Fits([k EXCEPT !.secure = TRUE], w)
<1>1. PICK j : j = [k EXCEPT !.secure = TRUE]
  OBVIOUS
<1>2. /\ j \in ConnType /\ j.toClient = k.toClient /\ j.toBackend = k.toBackend
      /\ j.backendEOF = k.backendEOF
  BY <1>1 DEF Fits, ConnType
<1>3. ToClientOK(j, w) /\ ToBackendOK(j, w)
  BY <1>2 DEF Fits, ToClientOK, ToBackendOK
<1>4. Fits(j, w)
  BY <1>2, <1>3 DEF Fits
<1> QED
  BY <1>1, <1>4

LEMMA OnClientFdEventOK ==
  ASSUME NEW k, NEW w, Fits(k, w), k.toBackend = <<>>,
         NEW o \in OnClientFdEvent(k, w, MasksOf(k))
  PROVE  /\ OutcomeOK(k, o)
         /\ o.end = "open" /\ k.toClient = <<>> => o.conn.toClient = <<>>
<1>1. CASE k.toClient # <<>>
  <2>1. o \in TryWriteToClient(k, w, TRUE, Waiting(TRUE))
    BY <1>1 DEF OnClientFdEvent, MasksOf, Waiting
  <2>2. OutcomeOK(k, o)
    BY <1>1, <2>1, TryWriteToClientOK
  <2> QED
    BY <1>1, <2>2
<1>2. CASE k.toClient = <<>>
  <2>1. PICK s : s = IF k.secure THEN w ELSE Shake(w)
    OBVIOUS
  <2>2. Fits(k, s) /\ WireOK(s)
    BY <2>1, ShakeFits DEF Fits
  <2>3. MasksOf(k) = Relaying
    BY <1>2 DEF MasksOf
  <2>4. CASE s.shaken
    <3>1. PICK j : j = [k EXCEPT !.secure = TRUE]
      OBVIOUS
    <3>2. /\ j.clientFd = k.clientFd /\ j.backendFd = k.backendFd
          /\ j.toClient = <<>> /\ j.toBackend = <<>>
      BY <1>2, <3>1 DEF Fits, ConnType
    <3>3. Fits(j, s)
      BY <2>2, <3>1, SecureOK
    <3>4. o \in ReadFromClient(j, s, Relaying)
      BY <1>2, <2>1, <2>3, <2>4, <3>1 DEF OnClientFdEvent
    <3>5. /\ OutcomeOK(j, o)
          /\ o.end = "open" => o.conn.toClient = <<>>
      BY <2>4, <3>2, <3>3, <3>4, ReadFromClientOK
    <3> QED
      BY <3>2, <3>5 DEF OutcomeOK
  <2>5. CASE ~s.shaken
    <3>1. o \in {Outcome(k, s, Relaying, "open"), Outcome(k, s, <<>>, "close")}
      BY <1>2, <2>1, <2>3, <2>5 DEF OnClientFdEvent, Closed
    <3> QED
      BY <1>2, <2>2, <2>3, <3>1 DEF OutcomeOK, Outcome
  <2> QED
    BY <2>4, <2>5
<1> QED
  BY <1>1, <1>2

LEMMA OnBackendFdEventOK ==
  ASSUME NEW k, NEW w, Fits(k, w), k.toClient = <<>>,
         NEW o \in OnBackendFdEvent(k, w, MasksOf(k))
  PROVE  /\ OutcomeOK(k, o)
         /\ o.end = "open" /\ k.toBackend = <<>> => o.conn.toBackend = <<>>
         /\ o.end = "close" /\ w.backend # "reset" /\ w.client = "up"
              => o.wire = w /\ w.backendIn = <<>>
<1>1. CASE k.toBackend # <<>>
  <2>1. o \in FlushToBackend(k, w, ToBackend)
    BY <1>1 DEF OnBackendFdEvent, MasksOf
  <2> QED
    BY <1>1, <2>1, FlushToBackendOK
<1>2. CASE k.toBackend = <<>>
  <2>1. o \in ReadFromBackend(k, w, Relaying)
    BY <1>2 DEF OnBackendFdEvent, MasksOf
  <2> QED
    BY <1>2, <2>1, ReadFromBackendOK
<1> QED
  BY <1>1, <1>2

-----------------------------------------------------------------------------
(* What the peers do to the sockets. *)

\* A step of a peer keeps what is known of a connection and its sockets.
Harmless(k, w, v) ==
  WireOK(w) => WireOK(v) /\ (Fits(k, w) => Fits(k, v))

LEMMA Singletons ==
  /\ \A s \in UnitSeqs : \A x \in Unit : Append(s, x) \in UnitSeqs /\ Append(s, x) = s \o <<x>>
  /\ \A x \in Unit : <<x>> \in UnitSeqs
  /\ \A s \in UnitSeqs : s # <<>> =>
       Head(s) \in Unit /\ Tail(s) \in UnitSeqs /\ Len(Tail(s)) = Len(s) - 1
<1>1. \A s \in Seq(Unit) : \A x \in Unit : Append(s, x) \in Seq(Unit) /\ Append(s, x) = s \o <<x>>
  BY AppendProperties, AppendIsConcat
<1>2. \A x \in Unit : <<x>> \in Seq(Unit)
  OBVIOUS
<1>3. \A s \in Seq(Unit) : s # <<>> =>
        Head(s) \in Unit /\ Tail(s) \in Seq(Unit) /\ Len(Tail(s)) = Len(s) - 1
  BY HeadTailProperties
<1> QED
  BY <1>1, <1>2, <1>3 DEF UnitSeqs

\* A unit read from a socket is moved from one end of the account to the
\* other.
LEMMA HeadMoved ==
  ASSUME NEW got \in UnitSeqs, NEW out \in UnitSeqs, out # <<>>
  PROVE  /\ Append(got, Head(out)) \in UnitSeqs /\ Tail(out) \in UnitSeqs
         /\ Len(Tail(out)) = Len(out) - 1
         /\ Append(got, Head(out)) \o Tail(out) = got \o out
<1>1. PICK x \in Unit, t \in UnitSeqs : x = Head(out) /\ t = Tail(out) /\ Len(t) = Len(out) - 1
  BY Singletons
<1>2. PICK e \in UnitSeqs : e = <<x>> /\ Append(got, x) = got \o e /\ Append(got, x) \in UnitSeqs
  BY Singletons
<1>3. e \o t = out
  <2>1. /\ out \in Seq(Unit) /\ t \in Seq(Unit) /\ e \in Seq(Unit) /\ Len(e) = 1 /\ e[1] = x
        /\ Len(out) \in Nat /\ Len(out) >= 1
    BY <1>2, EmptySeq, LenProperties DEF UnitSeqs
  <2>2. /\ x = out[1] /\ \A i \in 1..Len(t) : t[i] = out[i + 1]
    BY <1>1, <2>1, HeadTailProperties
  <2>3. PICK u \in Seq(Unit) :
          /\ u = e \o t /\ Len(u) = Len(e) + Len(t)
          /\ \A i \in 1..Len(e) + Len(t) : u[i] = IF i <= Len(e) THEN e[i] ELSE t[i - Len(e)]
    <3>1. /\ e \o t \in Seq(Unit) /\ Len(e \o t) = Len(e) + Len(t)
          /\ \A i \in 1..Len(e) + Len(t) :
               (e \o t)[i] = IF i <= Len(e) THEN e[i] ELSE t[i - Len(e)]
      BY ConcatProperties DEF UnitSeqs
    <3> QED
      BY <3>1, Zenon
  <2>4. Len(u) = Len(out)
    BY <1>1, <2>1, <2>3
  <2>5. \A i \in 1..Len(u) : u[i] = out[i]
    <3> TAKE i \in 1..Len(u)
    <3>1. u[i] = IF i <= 1 THEN e[i] ELSE t[i - 1]
      BY <2>1, <2>3
    <3>2. CASE i = 1
      BY <2>1, <2>2, <3>1, <3>2
    <3>3. CASE i # 1
      <4>1. i - 1 \in 1..Len(t) /\ (i - 1) + 1 = i
        BY <1>1, <2>1, <2>4, <3>3
      <4>2. t[i - 1] = out[(i - 1) + 1]
        BY <2>2, <4>1
      <4> QED
        BY <3>1, <3>3, <4>1, <4>2
    <3> QED
      BY <3>2, <3>3
  <2> QED
    BY <2>1, <2>3, <2>4, <2>5, SeqEqual
<1>4. (got \o e) \o t = got \o (e \o t)
  <2>1. \A y, z, a \in UnitSeqs : (y \o z) \o a = y \o (z \o a)
    BY Associative
  <2>2. \A z, a \in UnitSeqs : (got \o z) \o a = got \o (z \o a)
    BY <2>1
  <2>3. \A a \in UnitSeqs : (got \o e) \o a = got \o (e \o a)
    BY <2>2
  <2> QED
    BY <2>3
<1> QED
  BY <1>1, <1>2, <1>3, <1>4

LEMMA ClientReadsOK ==
  ASSUME NEW k, NEW w, w.clientOut # <<>>
  PROVE  Harmless(k, w, [w EXCEPT !.clientGot = Append(@, Head(w.clientOut)),
                                  !.clientOut = Tail(@)])
<1>1. PICK v : v = [w EXCEPT !.clientGot = Append(@, Head(w.clientOut)),
                             !.clientOut = Tail(@)]
  OBVIOUS
<1> SUFFICES ASSUME WireOK(w) PROVE WireOK(v) /\ (Fits(k, w) => Fits(k, v))
  BY <1>1 DEF Harmless
<1>2. w \in WireType /\ w.clientGot \in UnitSeqs /\ w.clientOut \in UnitSeqs
      /\ Len(w.clientOut) <= Capacity
  BY WireTyped DEF WireOK
<1>3. PICK g \in UnitSeqs, t \in UnitSeqs :
        /\ g = Append(w.clientGot, Head(w.clientOut)) /\ t = Tail(w.clientOut)
        /\ Len(t) = Len(w.clientOut) - 1
        /\ g \o t = w.clientGot \o w.clientOut
  BY <1>2, HeadMoved
<1>4. v = [w EXCEPT !.clientGot = g, !.clientOut = t]
  BY <1>1, <1>3
<1>5. /\ v \in WireType /\ v.clientGot = g /\ v.clientOut = t
      /\ v.client = w.client /\ v.backend = w.backend
      /\ v.backendGot = w.backendGot /\ v.backendOut = w.backendOut
      /\ v.backendIn = w.backendIn /\ v.pushed = w.pushed
      /\ v.unitsSent = w.unitsSent
      /\ v.recordsSent = w.recordsSent /\ v.helloSent = w.helloSent
      /\ v.shaken = w.shaken /\ v.ssl = w.ssl /\ v.clientIn = w.clientIn
  BY <1>2, <1>4 DEF WireType
<1>6. /\ Reached(v) = Reached(w) /\ Arrived(v) = Arrived(w)
      /\ Unread(v) = Unread(w) /\ Taken(v) = Taken(w)
  BY <1>3, <1>5 DEF Reached, Arrived, Unread, Taken
<1>7. Len(v.clientOut) <= Capacity
  <2>1. Len(t) \in Nat /\ Len(w.clientOut) \in Nat /\ Capacity \in Nat
    BY <1>2, Sizes, LenProperties DEF UnitSeqs
  <2> QED
    BY <1>2, <1>3, <1>5, <2>1
<1>8. WireOK(v)
  BY <1>5, <1>6, <1>7 DEF WireOK
<1>9. Fits(k, w) => Fits(k, v)
  <2> HAVE Fits(k, w)
  <2>1. ToClientOK(k, v) /\ ToBackendOK(k, v)
    BY <1>5, <1>6 DEF Fits, ToClientOK, ToBackendOK
  <2>2. Greeting(v) /\ v.pushed <= Len(k.toClient)
    BY <1>5 DEF Fits, Greeting
  <2> QED
    BY <1>8, <2>1, <2>2 DEF Fits
<1> QED
  BY <1>8, <1>9

LEMMA BackendReadsOK ==
  ASSUME NEW k, NEW w, w.backendOut # <<>>
  PROVE  Harmless(k, w, [w EXCEPT !.backendGot = Append(@, Head(w.backendOut)),
                                  !.backendOut = Tail(@)])
<1>1. PICK v : v = [w EXCEPT !.backendGot = Append(@, Head(w.backendOut)),
                             !.backendOut = Tail(@)]
  OBVIOUS
<1> SUFFICES ASSUME WireOK(w) PROVE WireOK(v) /\ (Fits(k, w) => Fits(k, v))
  BY <1>1 DEF Harmless
<1>2. w \in WireType /\ w.backendGot \in UnitSeqs /\ w.backendOut \in UnitSeqs
      /\ Len(w.backendOut) <= Capacity
  BY WireTyped DEF WireOK
<1>3. PICK g \in UnitSeqs, t \in UnitSeqs :
        /\ g = Append(w.backendGot, Head(w.backendOut)) /\ t = Tail(w.backendOut)
        /\ Len(t) = Len(w.backendOut) - 1
        /\ g \o t = w.backendGot \o w.backendOut
  BY <1>2, HeadMoved
<1>4. v = [w EXCEPT !.backendGot = g, !.backendOut = t]
  BY <1>1, <1>3
<1>5. /\ v \in WireType /\ v.backendGot = g /\ v.backendOut = t
      /\ v.client = w.client /\ v.backend = w.backend
      /\ v.clientGot = w.clientGot /\ v.clientOut = w.clientOut
      /\ v.backendIn = w.backendIn /\ v.pushed = w.pushed
      /\ v.unitsSent = w.unitsSent
      /\ v.recordsSent = w.recordsSent /\ v.helloSent = w.helloSent
      /\ v.shaken = w.shaken /\ v.ssl = w.ssl /\ v.clientIn = w.clientIn
  BY <1>2, <1>4 DEF WireType
<1>6. /\ Reached(v) = Reached(w) /\ Arrived(v) = Arrived(w)
      /\ Unread(v) = Unread(w) /\ Taken(v) = Taken(w)
  BY <1>3, <1>5 DEF Reached, Arrived, Unread, Taken
<1>7. Len(v.backendOut) <= Capacity
  <2>1. Len(t) \in Nat /\ Len(w.backendOut) \in Nat /\ Capacity \in Nat
    BY <1>2, Sizes, LenProperties DEF UnitSeqs
  <2> QED
    BY <1>2, <1>3, <1>5, <2>1
<1>8. WireOK(v)
  BY <1>5, <1>6, <1>7 DEF WireOK
<1>9. Fits(k, w) => Fits(k, v)
  <2> HAVE Fits(k, w)
  <2>1. ToClientOK(k, v) /\ ToBackendOK(k, v)
    BY <1>5, <1>6 DEF Fits, ToClientOK, ToBackendOK
  <2>2. Greeting(v) /\ v.pushed <= Len(k.toClient)
    BY <1>5 DEF Fits, Greeting
  <2> QED
    BY <1>8, <2>1, <2>2 DEF Fits
<1> QED
  BY <1>8, <1>9

LEMMA HelloOK ==
  ASSUME NEW k, NEW w, ~w.helloSent
  PROVE  Harmless(k, w, [w EXCEPT !.helloSent = TRUE, !.clientIn = Append(@, Hello)])
<1>1. PICK v : v = [w EXCEPT !.helloSent = TRUE, !.clientIn = Append(w.clientIn, Hello)]
  OBVIOUS
<1> SUFFICES ASSUME WireOK(w) PROVE WireOK(v) /\ (Fits(k, w) => Fits(k, v))
  BY <1>1 DEF Harmless
<1>2. /\ w \in WireType /\ w.clientIn \in Seq(Records)
      /\ Append(w.clientIn, Hello) \in Seq(Records)
  <2>1. Hello \in Records
    BY Sizes DEF Hello, Records
  <2> QED
    BY <2>1, WireTyped, AppendProperties DEF WireOK
<1>3. /\ v \in WireType /\ v.helloSent /\ v.clientIn = Append(w.clientIn, Hello)
      /\ v.client = w.client /\ v.backend = w.backend
      /\ v.clientGot = w.clientGot /\ v.clientOut = w.clientOut
      /\ v.backendGot = w.backendGot /\ v.backendOut = w.backendOut
      /\ v.backendIn = w.backendIn /\ v.pushed = w.pushed
      /\ v.unitsSent = w.unitsSent /\ v.recordsSent = w.recordsSent
      /\ v.shaken = w.shaken /\ v.ssl = w.ssl
  BY <1>1, <1>2 DEF WireType
<1>4. Reached(v) = Reached(w) /\ Arrived(v) = Arrived(w)
  BY <1>3 DEF Reached, Arrived
<1>5. WireOK(v)
  BY <1>3, <1>4 DEF WireOK
<1>6. Fits(k, w) => Fits(k, v)
  <2> HAVE Fits(k, w)
  <2>1. ~w.shaken /\ w.ssl = <<>> /\ w.clientIn = <<>>
    BY DEF Fits, Greeting
  <2>2. Unread(v) = Unread(w) /\ Taken(v) = Taken(w)
    BY <1>3, <2>1 DEF Unread, Taken
  <2>3. v.clientIn = <<Hello>>
    BY <1>3, <2>1
  <2>4. Greeting(v) /\ v.pushed <= Len(k.toClient)
    BY <1>3, <2>1, <2>3 DEF Fits, Greeting
  <2>5. ToClientOK(k, v) /\ ToBackendOK(k, v)
    BY <1>3, <1>4, <2>2 DEF Fits, ToClientOK, ToBackendOK
  <2> QED
    BY <1>5, <2>4, <2>5 DEF Fits
<1> QED
  BY <1>5, <1>6

LEMMA ClientSendsOK ==
  ASSUME NEW k, NEW w, w.shaken, w.recordsSent < MaxRecords
  PROVE  Harmless(k, w, [w EXCEPT !.recordsSent = @ + 1,
                                  !.clientIn = Append(@, w.recordsSent + 1)])
<1>1. PICK v : v = [w EXCEPT !.recordsSent = w.recordsSent + 1,
                             !.clientIn = Append(w.clientIn, w.recordsSent + 1)]
  OBVIOUS
<1> SUFFICES ASSUME WireOK(w) PROVE WireOK(v) /\ (Fits(k, w) => Fits(k, v))
  BY <1>1 DEF Harmless
<1>2. PICK r \in Records : r = w.recordsSent + 1
  BY WireTyped, Sizes DEF Records
<1>3. /\ w \in WireType /\ w.clientIn \in Seq(Records) /\ w.ssl \in Seq(Records)
      /\ Append(w.clientIn, r) \in Seq(Records) /\ w.recordsSent \in Nat
  BY WireTyped, AppendProperties DEF WireOK
<1>4. /\ v \in WireType /\ v.recordsSent = r /\ v.clientIn = Append(w.clientIn, r)
      /\ v.client = w.client /\ v.backend = w.backend
      /\ v.clientGot = w.clientGot /\ v.clientOut = w.clientOut
      /\ v.backendGot = w.backendGot /\ v.backendOut = w.backendOut
      /\ v.backendIn = w.backendIn /\ v.pushed = w.pushed
      /\ v.unitsSent = w.unitsSent /\ v.helloSent = w.helloSent
      /\ v.shaken = w.shaken /\ v.ssl = w.ssl
  BY <1>1, <1>2, <1>3 DEF WireType
<1>5. Reached(v) = Reached(w) /\ Arrived(v) = Arrived(w)
  BY <1>4 DEF Reached, Arrived
<1>6. WireOK(v)
  BY <1>4, <1>5 DEF WireOK
<1>7. Fits(k, w) => Fits(k, v)
  <2> HAVE Fits(k, w)
  <2>1. PICK u \in Seq(Records) : u = Unread(w) /\ Len(u) \in Nat /\ u = w.ssl \o w.clientIn
    BY UnreadTyped DEF Unread
  <2>2. Unread(v) = Append(u, r)
    <3>1. Append(w.clientIn, r) = w.clientIn \o <<r>> /\ <<r>> \in Seq(Records)
      BY <1>3, AppendIsConcat
    <3>2. Append(u, r) = u \o <<r>>
      BY AppendIsConcat
    <3>3. (w.ssl \o w.clientIn) \o <<r>> = w.ssl \o (w.clientIn \o <<r>>)
      <4>1. \A x, y, z \in Seq(Records) : (x \o y) \o z = x \o (y \o z)
        BY ConcatAssociative
      <4>2. \A y, z \in Seq(Records) : (w.ssl \o y) \o z = w.ssl \o (y \o z)
        BY <1>3, <4>1
      <4>3. \A z \in Seq(Records) : (w.ssl \o w.clientIn) \o z = w.ssl \o (w.clientIn \o z)
        BY <1>3, <4>2
      <4> QED
        BY <3>1, <4>3
    <3>4. Unread(v) = w.ssl \o Append(w.clientIn, r)
      BY <1>4 DEF Unread
    <3> QED
      BY <2>1, <3>1, <3>2, <3>3, <3>4
  <2>3. PICK m \in Int : m = Taken(w) /\ m >= 0 /\ r = m + Len(u) + 1
    <3>1. Taken(w) >= 0
      BY DEF Fits, ToBackendOK
    <3>2. Taken(w) = w.recordsSent - Len(u)
      BY <2>1 DEF Taken
    <3>3. Len(u) \in Nat
      BY <2>1
    <3> QED
      BY <1>2, <1>3, <3>1, <3>2, <3>3
  <2>4. Len(Append(u, r)) = Len(u) + 1
    BY AppendProperties
  <2>5. Taken(v) = m
    <3>1. Taken(v) = r - (Len(u) + 1)
      BY <1>4, <2>2, <2>4 DEF Taken
    <3>2. Len(u) \in Nat
      BY <2>1
    <3> QED
      BY <2>3, <3>1, <3>2
  <2>6. Unread(v) = [i \in 1..Len(Unread(v)) |-> m + i]
    <3>1. u = [i \in 1..Len(u) |-> m + i]
      BY <2>1, <2>3 DEF Fits, ToBackendOK
    <3>2. Append(u, r) = [i \in 1..Len(u) + 1 |-> m + i]
      <4>1. \A i \in 1..Len(u) : u[i] = m + i
        BY <3>1
      <4>2. \A i \in 1..Len(u) + 1 : Append(u, r)[i] = IF i <= Len(u) THEN u[i] ELSE r
        BY AppendProperties
      <4>3. \A i \in 1..Len(u) + 1 : Append(u, r)[i] = m + i
        <5> TAKE i \in 1..Len(u) + 1
        <5>1. Len(u) \in Nat /\ r = m + Len(u) + 1 /\ m \in Int
          BY <2>1, <2>3
        <5>2. Append(u, r)[i] = IF i <= Len(u) THEN u[i] ELSE r
          BY <4>2
        <5>3. i <= Len(u) => u[i] = m + i
          BY <4>1, <5>1
        <5>4. ~(i <= Len(u)) => r = m + i
          BY <5>1
        <5> QED
          BY <5>2, <5>3, <5>4, Zenon
      <4>4. PICK a \in Seq(Records) : a = Append(u, r) /\ Len(a) = Len(u) + 1
        BY <2>4, AppendProperties
      <4>5. a = [i \in 1..Len(a) |-> a[i]]
        OBVIOUS
      <4> QED
        BY <4>3, <4>4, <4>5
    <3> QED
      BY <2>2, <2>4, <3>2
  <2>7. ToBackendOK(k, v)
    <3>1. w.backend # "reset" => Reached(w) \o k.toBackend = Count(m * RecordUnits)
      BY <2>3 DEF Fits, ToBackendOK
    <3> QED
      BY <1>4, <1>5, <2>3, <2>5, <2>6, <3>1 DEF ToBackendOK
  <2>8. ToClientOK(k, v)
    BY <1>4, <1>5 DEF Fits, ToClientOK
  <2>9. Greeting(v) /\ v.pushed <= Len(k.toClient)
    BY <1>4 DEF Fits, Greeting
  <2> QED
    BY <1>6, <2>7, <2>8, <2>9 DEF Fits
<1> QED
  BY <1>6, <1>7

LEMMA BackendSendsOK ==
  ASSUME NEW k, NEW w, w.unitsSent < MaxUnits
  PROVE  Harmless(k, w, [w EXCEPT !.unitsSent = @ + 1,
                                  !.backendIn = Append(@, w.unitsSent + 1)])
<1>1. PICK v : v = [w EXCEPT !.unitsSent = w.unitsSent + 1,
                             !.backendIn = Append(w.backendIn, w.unitsSent + 1)]
  OBVIOUS
<1> SUFFICES ASSUME WireOK(w) PROVE WireOK(v) /\ (Fits(k, w) => Fits(k, v))
  BY <1>1 DEF Harmless
<1>2. PICK n \in Nat : n = w.unitsSent /\ n + 1 \in 0..MaxUnits /\ n + 1 \in Unit
  <2>1. PICK n \in Nat : n = w.unitsSent
    BY WireTyped
  <2>2. n + 1 \in 1..MaxUnits /\ MaxUnits \in Nat
    BY <2>1, Sizes
  <2>3. PICK b \in Nat : b = MaxRecords * RecordUnits
    BY Sizes
  <2>4. n + 1 \in 1..MaxUnits + b
    BY <2>2, <2>3
  <2> QED
    BY <2>1, <2>2, <2>3, <2>4 DEF Unit
<1>3. PICK e \in UnitSeqs : /\ e = <<n + 1>> /\ Append(w.backendIn, n + 1) = w.backendIn \o e
                            /\ Append(w.backendIn, n + 1) \in UnitSeqs
  <2>1. w.backendIn \in UnitSeqs
    BY WireTyped
  <2> QED
    BY <1>2, <2>1, Singletons
<1>4. w \in WireType /\ w.backendIn \in UnitSeqs /\ Arrived(w) \in UnitSeqs
  BY WireTyped DEF WireOK
<1>5. /\ v \in WireType /\ v.unitsSent = n + 1 /\ v.backendIn = w.backendIn \o e
      /\ v.client = w.client /\ v.backend = w.backend
      /\ v.clientGot = w.clientGot /\ v.clientOut = w.clientOut
      /\ v.backendGot = w.backendGot /\ v.backendOut = w.backendOut
      /\ v.pushed = w.pushed
      /\ v.recordsSent = w.recordsSent /\ v.helloSent = w.helloSent
      /\ v.shaken = w.shaken /\ v.ssl = w.ssl /\ v.clientIn = w.clientIn
  BY <1>1, <1>2, <1>3, <1>4 DEF WireType
<1>6. /\ Reached(v) = Reached(w) /\ Arrived(v) = Arrived(w)
      /\ Unread(v) = Unread(w) /\ Taken(v) = Taken(w)
  BY <1>5 DEF Reached, Arrived, Unread, Taken
<1>7. WireOK(v)
  BY <1>5, <1>6 DEF WireOK
<1>8. Fits(k, w) => Fits(k, v)
  <2> HAVE Fits(k, w)
  <2>1. ToClientOK(k, v)
    <3> SUFFICES ASSUME w.client # "reset"
                 PROVE  (Arrived(w) \o RestOf(k.toClient, w.pushed)) \o (w.backendIn \o e)
                          = Count(n + 1)
      BY <1>5, <1>6 DEF ToClientOK
    <3>1. PICK x \in UnitSeqs : x = Arrived(w) \o RestOf(k.toClient, w.pushed)
      <4>1. k.toClient \in UnitSeqs /\ w.pushed \in 0..Len(k.toClient)
        <5>1. k.toClient \in UnitSeqs /\ w.pushed \in Nat /\ w.pushed <= Len(k.toClient)
          BY ConnTyped, WireTyped DEF Fits
        <5> QED
          BY <5>1, LenProperties DEF UnitSeqs
      <4>2. RestOf(k.toClient, w.pushed) \in UnitSeqs
        BY <4>1, CutInTwo
      <4> QED
        BY <1>4, <4>2, Joined
    <3>2. x \o w.backendIn = Count(n)
      BY <1>2, <3>1 DEF Fits, ToClientOK
    <3>3. x \o (w.backendIn \o e) = (x \o w.backendIn) \o e
      <4>1. \A y, z, a \in UnitSeqs : (y \o z) \o a = y \o (z \o a)
        BY Associative
      <4>2. \A z, a \in UnitSeqs : (x \o z) \o a = x \o (z \o a)
        BY <4>1
      <4>3. \A a \in UnitSeqs : (x \o w.backendIn) \o a = x \o (w.backendIn \o a)
        BY <1>4, <4>2
      <4> QED
        BY <4>3
    <3>4. (x \o w.backendIn) \o e = Count(n + 1)
      <4>1. PICK s \in UnitSeqs : s = x \o w.backendIn /\ s = Count(n)
        BY <1>4, <3>2, Joined
      <4>2. e = [i \in 1..1 |-> n + i]
        BY <1>3
      <4>3. s \o e = Count(n + 1)
        BY <4>1, <4>2, CountOn
      <4> QED
        BY <4>1, <4>3
    <3> QED
      BY <3>1, <3>3, <3>4
  <2>2. ToBackendOK(k, v)
    BY <1>5, <1>6 DEF Fits, ToBackendOK
  <2>3. Greeting(v) /\ v.pushed <= Len(k.toClient)
    BY <1>5 DEF Fits, Greeting
  <2> QED
    BY <1>7, <2>1, <2>2, <2>3 DEF Fits
<1> QED
  BY <1>7, <1>8

\* The end of a peer's stream changes no buffer.
LEMMA EndsOK ==
  ASSUME NEW k, NEW w
  PROVE  /\ Harmless(k, w, [w EXCEPT !.client = "closed"])
            \/ w.client = "reset"
         /\ Harmless(k, w, [w EXCEPT !.backend = "closed"])
            \/ w.backend = "reset"
<1>1. ASSUME NEW v, WireOK(w), v \in WireType,
             w.client # "reset" \/ v.client = w.client,
             w.backend # "reset" \/ v.backend = w.backend,
             v.clientGot = w.clientGot, v.clientOut = w.clientOut,
             v.backendGot = w.backendGot, v.backendOut = w.backendOut,
             v.backendIn = w.backendIn, v.pushed = w.pushed,
             v.unitsSent = w.unitsSent, v.recordsSent = w.recordsSent,
             v.helloSent = w.helloSent, v.shaken = w.shaken, v.ssl = w.ssl,
             v.clientIn = w.clientIn
      PROVE  WireOK(v) /\ (Fits(k, w) => Fits(k, v))
  <2>1. /\ Reached(v) = Reached(w) /\ Arrived(v) = Arrived(w)
        /\ Unread(v) = Unread(w) /\ Taken(v) = Taken(w)
    BY <1>1 DEF Reached, Arrived, Unread, Taken
  <2>2. WireOK(v)
    BY <1>1, <2>1 DEF WireOK
  <2>3. Fits(k, w) => ToClientOK(k, v) /\ ToBackendOK(k, v) /\ Greeting(v)
    BY <1>1, <2>1 DEF Fits, ToClientOK, ToBackendOK, Greeting
  <2> QED
    BY <1>1, <2>2, <2>3 DEF Fits
<1>2. ASSUME w.client # "reset", WireOK(w), NEW v, v = [w EXCEPT !.client = "closed"]
      PROVE  WireOK(v) /\ (Fits(k, w) => Fits(k, v))
  <2>1. w \in WireType
    BY <1>2 DEF WireOK
  <2>2. /\ v \in WireType /\ v.backend = w.backend
        /\ v.clientGot = w.clientGot /\ v.clientOut = w.clientOut
        /\ v.backendGot = w.backendGot /\ v.backendOut = w.backendOut
        /\ v.backendIn = w.backendIn /\ v.pushed = w.pushed
        /\ v.unitsSent = w.unitsSent /\ v.recordsSent = w.recordsSent
        /\ v.helloSent = w.helloSent /\ v.shaken = w.shaken /\ v.ssl = w.ssl
        /\ v.clientIn = w.clientIn
    BY <1>2, <2>1 DEF WireType
  <2> QED
    BY <1>1, <1>2, <2>2
<1>3. ASSUME w.backend # "reset", WireOK(w), NEW v, v = [w EXCEPT !.backend = "closed"]
      PROVE  WireOK(v) /\ (Fits(k, w) => Fits(k, v))
  <2>1. w \in WireType
    BY <1>3 DEF WireOK
  <2>2. /\ v \in WireType /\ v.client = w.client
        /\ v.clientGot = w.clientGot /\ v.clientOut = w.clientOut
        /\ v.backendGot = w.backendGot /\ v.backendOut = w.backendOut
        /\ v.backendIn = w.backendIn /\ v.pushed = w.pushed
        /\ v.unitsSent = w.unitsSent /\ v.recordsSent = w.recordsSent
        /\ v.helloSent = w.helloSent /\ v.shaken = w.shaken /\ v.ssl = w.ssl
        /\ v.clientIn = w.clientIn
    BY <1>3, <2>1 DEF WireType
  <2> QED
    BY <1>1, <1>3, <2>2
<1> QED
  BY <1>2, <1>3 DEF Harmless

\* A reset drops what the relay's socket had still to send.
LEMMA ResetOK ==
  ASSUME NEW k, NEW w
  PROVE  /\ Harmless(k, w, [w EXCEPT !.client = "reset", !.clientOut = <<>>])
         /\ Harmless(k, w, [w EXCEPT !.backend = "reset", !.backendOut = <<>>])
<1>1. ASSUME WireOK(w), NEW v, v = [w EXCEPT !.client = "reset", !.clientOut = <<>>]
      PROVE  WireOK(v) /\ (Fits(k, w) => Fits(k, v))
  <2>1. /\ w \in WireType /\ <<>> \in UnitSeqs
        /\ w.clientGot \in UnitSeqs /\ w.clientOut \in UnitSeqs /\ Arrived(w) \in UnitSeqs
    BY <1>1, WireTyped, EmptyUnits DEF WireOK
  <2>2. /\ v \in WireType /\ v.client = "reset" /\ v.backend = w.backend
        /\ v.clientGot = w.clientGot /\ v.clientOut = <<>>
        /\ v.backendGot = w.backendGot /\ v.backendOut = w.backendOut
        /\ v.backendIn = w.backendIn /\ v.pushed = w.pushed
        /\ v.unitsSent = w.unitsSent /\ v.recordsSent = w.recordsSent
        /\ v.helloSent = w.helloSent /\ v.shaken = w.shaken /\ v.ssl = w.ssl
        /\ v.clientIn = w.clientIn
    BY <1>1, <2>1 DEF WireType
  <2>3. Reached(v) = Reached(w) /\ Unread(v) = Unread(w) /\ Taken(v) = Taken(w)
    BY <2>2 DEF Reached, Unread, Taken
  <2>4. Arrived(v) = w.clientGot
    BY <2>1, <2>2, EmptyUnits DEF Arrived
  <2>5. w.clientGot = Count(Len(w.clientGot))
    <3>1. PICK a \in UnitSeqs, b \in UnitSeqs, n \in Nat :
            a = w.clientGot /\ b = w.clientOut /\ n = Len(Arrived(w))
      BY <2>1, LenProperties DEF UnitSeqs
    <3>2. a \o b = Count(n)
      BY <1>1, <3>1 DEF WireOK, Arrived
    <3> QED
      BY <3>1, <3>2, CountPrefix
  <2>6. Len(v.clientOut) <= Capacity
    BY <2>2, Sizes, EmptySeq
  <2>7. WireOK(v)
    BY <1>1, <2>2, <2>3, <2>4, <2>5, <2>6 DEF WireOK
  <2>8. Fits(k, w) => ToClientOK(k, v) /\ ToBackendOK(k, v) /\ Greeting(v)
    BY <2>2, <2>3 DEF Fits, ToClientOK, ToBackendOK, Greeting
  <2> QED
    BY <2>2, <2>7, <2>8 DEF Fits
<1>2. ASSUME WireOK(w), NEW v, v = [w EXCEPT !.backend = "reset", !.backendOut = <<>>]
      PROVE  WireOK(v) /\ (Fits(k, w) => Fits(k, v))
  <2>1. /\ w \in WireType /\ <<>> \in UnitSeqs
        /\ w.backendGot \in UnitSeqs /\ w.backendOut \in UnitSeqs /\ Reached(w) \in UnitSeqs
    BY <1>2, WireTyped, EmptyUnits DEF WireOK
  <2>2. /\ v \in WireType /\ v.backend = "reset" /\ v.client = w.client
        /\ v.backendGot = w.backendGot /\ v.backendOut = <<>>
        /\ v.clientGot = w.clientGot /\ v.clientOut = w.clientOut
        /\ v.backendIn = w.backendIn /\ v.pushed = w.pushed
        /\ v.unitsSent = w.unitsSent /\ v.recordsSent = w.recordsSent
        /\ v.helloSent = w.helloSent /\ v.shaken = w.shaken /\ v.ssl = w.ssl
        /\ v.clientIn = w.clientIn
    BY <1>2, <2>1 DEF WireType
  <2>3. Arrived(v) = Arrived(w) /\ Unread(v) = Unread(w) /\ Taken(v) = Taken(w)
    BY <2>2 DEF Arrived, Unread, Taken
  <2>4. Reached(v) = w.backendGot
    BY <2>1, <2>2, EmptyUnits DEF Reached
  <2>5. w.backendGot = Count(Len(w.backendGot))
    <3>1. PICK a \in UnitSeqs, b \in UnitSeqs, n \in Nat :
            a = w.backendGot /\ b = w.backendOut /\ n = Len(Reached(w))
      BY <2>1, LenProperties DEF UnitSeqs
    <3>2. a \o b = Count(n)
      BY <1>2, <3>1 DEF WireOK, Reached
    <3> QED
      BY <3>1, <3>2, CountPrefix
  <2>6. Len(v.backendOut) <= Capacity
    BY <2>2, Sizes, EmptySeq
  <2>7. WireOK(v)
    BY <1>2, <2>2, <2>3, <2>4, <2>5, <2>6 DEF WireOK
  <2>8. Fits(k, w) => ToClientOK(k, v) /\ ToBackendOK(k, v) /\ Greeting(v)
    BY <2>2, <2>3 DEF Fits, ToClientOK, ToBackendOK, Greeting
  <2> QED
    BY <2>2, <2>7, <2>8 DEF Fits
<1> QED
  BY <1>1, <1>2 DEF Harmless

\* close(2) on both sockets.
LEMMA AfterCloseOK ==
  ASSUME NEW w, WireOK(w)
  PROVE  /\ WireOK(AfterClose(w))
         /\ w.clientIn = <<>> => Arrived(AfterClose(w)) = Arrived(w)
<1>1. PICK v : v = AfterClose(w)
  OBVIOUS
<1>2. /\ w \in WireType /\ <<>> \in UnitSeqs /\ <<>> \in Seq(Records) /\ 0 \in Nat
      /\ w.clientGot \in UnitSeqs /\ w.clientOut \in UnitSeqs
      /\ w.backendGot \in UnitSeqs /\ w.backendOut \in UnitSeqs
      /\ Arrived(w) \in UnitSeqs /\ Reached(w) \in UnitSeqs
  BY WireTyped, EmptyUnits DEF WireOK
<1>3. /\ v \in WireType
      /\ v.clientGot = w.clientGot /\ v.backendGot = w.backendGot
      /\ v.clientOut = (IF w.clientIn # <<>> THEN <<>> ELSE w.clientOut)
      /\ v.backendOut = (IF w.backendIn # <<>> THEN <<>> ELSE w.backendOut)
  BY <1>1, <1>2 DEF AfterClose, WireType
<1>4. Arrived(v) = (IF w.clientIn # <<>> THEN w.clientGot ELSE Arrived(w))
  BY <1>2, <1>3, EmptyUnits DEF Arrived
<1>5. Reached(v) = (IF w.backendIn # <<>> THEN w.backendGot ELSE Reached(w))
  BY <1>2, <1>3, EmptyUnits DEF Reached
<1>6. w.clientGot = Count(Len(w.clientGot)) /\ w.backendGot = Count(Len(w.backendGot))
  <2>1. PICK a \in UnitSeqs, b \in UnitSeqs, n \in Nat :
          a = w.clientGot /\ b = w.clientOut /\ n = Len(Arrived(w))
    BY <1>2, LenProperties DEF UnitSeqs
  <2>2. a \o b = Count(n)
    BY <2>1 DEF WireOK, Arrived
  <2>3. PICK c \in UnitSeqs, d \in UnitSeqs, m \in Nat :
          c = w.backendGot /\ d = w.backendOut /\ m = Len(Reached(w))
    BY <1>2, LenProperties DEF UnitSeqs
  <2>4. c \o d = Count(m)
    BY <2>3 DEF WireOK, Reached
  <2>5. a = Count(Len(a)) /\ c = Count(Len(c))
    BY <2>2, <2>4, CountPrefix
  <2> QED
    BY <2>1, <2>3, <2>5
<1>7. Len(v.clientOut) <= Capacity /\ Len(v.backendOut) <= Capacity
  BY <1>3, Sizes, EmptySeq DEF WireOK
<1>8. WireOK(v)
  BY <1>3, <1>4, <1>5, <1>6, <1>7 DEF WireOK
<1> QED
  BY <1>1, <1>4, <1>8

-----------------------------------------------------------------------------
(* What is on its way to either end, and what a step may do to it.         *)

\* The place of a unit in its record, and the record's in the stream.
LEMMA PlaceInRecord ==
  ASSUME NEW m \in Nat, NEW i \in Nat, i >= 1
  PROVE  /\ (i - 1) \div RecordUnits \in Nat /\ (i - 1) % RecordUnits \in 0..RecordUnits - 1
         /\ (m + ((i - 1) \div RecordUnits)) * RecordUnits + (((i - 1) % RecordUnits) + 1)
              = m * RecordUnits + i
         /\ \A n \in Nat : i <= RecordUnits * n => ((i - 1) \div RecordUnits) + 1 \in 1..n
<1>1. RecordUnits \in Nat /\ RecordUnits >= 1
  BY Sizes
<1>2. PICK r \in Nat, j \in Nat : r = RecordUnits /\ j = i - 1 /\ r >= 1
  BY <1>1
<1>3. PICK q, p : q = j \div r /\ p = j % r
  OBVIOUS
<1>4. q \in Int /\ p \in 0..r - 1 /\ j = r * q + p
  BY <1>2, <1>3
<1>5. q >= 0
  <2>1. CASE q <= -1
    <3>1. r * q <= -r
      BY <1>2, <1>4, <2>1
    <3> QED
      BY <1>2, <1>4, <3>1
  <2> QED
    BY <1>4, <2>1
<1>6. (m + q) * r + (p + 1) = m * r + i
  <2>1. (m + q) * r = m * r + r * q
    BY <1>2, <1>4
  <2>2. m * r \in Int /\ r * q \in Int
    BY <1>2, <1>4
  <2> QED
    BY <1>2, <1>4, <2>1, <2>2
<1>7. ASSUME NEW n \in Nat, i <= r * n PROVE q + 1 \in 1..n
  <2>1. CASE q >= n
    <3>1. r * q >= r * n
      BY <1>2, <1>4, <2>1
    <3>2. r * q \in Int /\ r * n \in Int
      BY <1>2, <1>4
    <3> QED
      BY <1>2, <1>4, <1>7, <3>1, <3>2
  <2> QED
    BY <1>4, <1>5, <2>1
<1> QED
  BY <1>2, <1>3, <1>4, <1>5, <1>6, <1>7

\* The units of consecutive records are consecutive.
LEMMA UnitsOfRun ==
  ASSUME NEW m \in Nat, NEW n \in Nat, m + n <= MaxRecords,
         NEW s, s = [i \in 1..n |-> m + i]
  PROVE  /\ UnitsOf(s) = [i \in 1..RecordUnits * n |-> m * RecordUnits + i]
         /\ UnitsOf(s) \in UnitSeqs
         /\ RecordUnits * n \in Nat /\ m * RecordUnits \in Nat
         /\ m * RecordUnits + RecordUnits * n = (m + n) * RecordUnits
<1>1. /\ RecordUnits \in Nat /\ RecordUnits >= 1 /\ MaxRecords \in Nat /\ MaxUnits \in Nat
      /\ Len(s) = n
  BY Sizes
<1>2. /\ RecordUnits * n \in Nat /\ m * RecordUnits \in Nat
      /\ m * RecordUnits + RecordUnits * n = (m + n) * RecordUnits
      /\ (m + n) * RecordUnits <= MaxRecords * RecordUnits
      /\ MaxRecords * RecordUnits \in Nat
  BY <1>1
<1>3. UnitsOf(s) = [i \in 1..RecordUnits * n |->
                      Units(s[((i - 1) \div RecordUnits) + 1])[((i - 1) % RecordUnits) + 1]]
  BY <1>1 DEF UnitsOf
<1>4. ASSUME NEW i \in 1..RecordUnits * n
      PROVE  Units(s[((i - 1) \div RecordUnits) + 1])[((i - 1) % RecordUnits) + 1]
               = m * RecordUnits + i
  <2>1. PICK q, p : q = (i - 1) \div RecordUnits /\ p = (i - 1) % RecordUnits
    OBVIOUS
  <2>2. i \in Nat /\ i >= 1 /\ i <= RecordUnits * n
    BY <1>2
  <2>3. /\ q \in Nat /\ p \in 0..RecordUnits - 1 /\ q + 1 \in 1..n
        /\ (m + q) * RecordUnits + (p + 1) = m * RecordUnits + i
    BY <2>1, <2>2, PlaceInRecord
  <2>4. PICK r \in Nat : /\ r = m + (q + 1) /\ r # Hello /\ r - 1 = m + q
                         /\ p + 1 \in 1..RecordUnits
    BY <1>1, <2>3 DEF Hello
  <2>5. s[q + 1] = r
    BY <2>3, <2>4
  <2>6. Units(r) = [j \in 1..RecordUnits |-> (r - 1) * RecordUnits + j]
    BY <2>4 DEF Units
  <2>7. Units(r)[p + 1] = (r - 1) * RecordUnits + (p + 1)
    BY <2>4, <2>6
  <2> QED
    BY <2>1, <2>3, <2>4, <2>5, <2>7
<1>5. UnitsOf(s) = [i \in 1..RecordUnits * n |-> m * RecordUnits + i]
  BY <1>3, <1>4
<1>6. \A i \in 1..RecordUnits * n : m * RecordUnits + i \in Unit
  <2>1. PICK x \in Nat, y \in Nat, z \in Nat :
          /\ x = m * RecordUnits /\ y = RecordUnits * n /\ z = MaxRecords * RecordUnits
          /\ x + y <= z
    BY <1>2
  <2>2. \A i \in 1..y : x + i \in 1..MaxUnits + z
    BY <1>1, <2>1
  <2> QED
    BY <2>1, <2>2, Zenon DEF Unit
<1>7. UnitsOf(s) \in UnitSeqs
  <2>1. PICK x, y \in Nat : x = m * RecordUnits /\ y = RecordUnits * n
    BY <1>2
  <2>2. UnitsOf(s) = [i \in 1..y |-> x + i] /\ \A i \in 1..y : x + i \in Unit
    BY <1>5, <1>6, <2>1
  <2>3. UnitsOf(s) \in [1..y -> Unit]
    BY <2>2
  <2> QED
    BY <2>3 DEF UnitSeqs
<1> QED
  BY <1>2, <1>5, <1>7

\* The account of the client's stream down to the units: what the backend
\* has, what is in its socket, what is staged and what is still in records.
LEMMA UnreadCounted ==
  ASSUME NEW k, NEW w, Fits(k, w), w.backend # "reset"
  PROVE  /\ UnitsOf(Unread(w)) \in UnitSeqs
         /\ (Reached(w) \o k.toBackend) \o UnitsOf(Unread(w))
              = Count(w.recordsSent * RecordUnits)
<1>1. PICK m, n : m = Taken(w) /\ n = Len(Unread(w))
  OBVIOUS
<1>2. WireOK(w) /\ ToBackendOK(k, w) /\ k \in ConnType
  BY DEF Fits
<1>3. w.recordsSent \in Nat /\ n \in Nat /\ w.recordsSent <= MaxRecords
  <2>1. w.recordsSent \in Records
    BY <1>2 DEF WireOK, WireType
  <2>2. n \in Nat
    BY <1>1, <1>2, UnreadTyped
  <2> QED
    BY <2>1, <2>2, Sizes DEF Records
<1>4. m \in Nat /\ m + n = w.recordsSent
  <2>1. Taken(w) >= 0
    BY <1>2 DEF ToBackendOK
  <2>2. m = w.recordsSent - n /\ m >= 0
    BY <1>1, <2>1 DEF Taken
  <2> QED
    BY <1>3, <2>2
<1>5. PICK s : s = Unread(w) /\ s = [i \in 1..n |-> m + i]
  BY <1>1, <1>2 DEF ToBackendOK
<1>6. /\ UnitsOf(s) = [i \in 1..RecordUnits * n |-> m * RecordUnits + i]
      /\ UnitsOf(s) \in UnitSeqs
      /\ RecordUnits * n \in Nat /\ m * RecordUnits \in Nat
      /\ m * RecordUnits + RecordUnits * n = w.recordsSent * RecordUnits
  <2>1. m + n <= MaxRecords
    BY <1>3, <1>4
  <2>2. /\ UnitsOf(s) = [i \in 1..RecordUnits * n |-> m * RecordUnits + i]
        /\ UnitsOf(s) \in UnitSeqs
        /\ RecordUnits * n \in Nat /\ m * RecordUnits \in Nat
        /\ m * RecordUnits + RecordUnits * n = (m + n) * RecordUnits
    <3> m \in Nat /\ n \in Nat
      BY <1>3, <1>4
    <3> QED
      BY <1>5, <2>1, UnitsOfRun
  <2> QED
    BY <1>4, <2>2, Zenon
<1>7. PICK a \in Nat, b \in Nat, t \in UnitSeqs, u \in UnitSeqs :
        /\ a = m * RecordUnits /\ b = RecordUnits * n
        /\ t = UnitsOf(s) /\ t = [i \in 1..b |-> a + i]
        /\ u = Reached(w) \o k.toBackend /\ u = Count(a)
  <2>1. Reached(w) \o k.toBackend \in UnitSeqs
    BY <1>2, WireTyped, ConnTyped, Joined
  <2>2. Reached(w) \o k.toBackend = Count(m * RecordUnits)
    BY <1>1, <1>2 DEF ToBackendOK
  <2> QED
    BY <1>6, <2>1, <2>2
<1>8. u \o t = Count(a + b)
  BY <1>7, CountOn
<1> QED
  BY <1>5, <1>6, <1>7, <1>8

\* A stream is joined from its parts in either order.
Joint(a, b, c, d) ==
  /\ (b \o c) \o d \in UnitSeqs /\ c \o d \in UnitSeqs
  /\ (b \o c) \o d = b \o (c \o d)
  /\ (a \o b) \o c = a \o (b \o c)
  /\ ((a \o b) \o c) \o d = a \o ((b \o c) \o d)

LEMMA Rejoined == \A a, b, c, d \in UnitSeqs : Joint(a, b, c, d)
<1> SUFFICES ASSUME NEW a \in UnitSeqs, NEW b \in UnitSeqs,
                    NEW c \in UnitSeqs, NEW d \in UnitSeqs
             PROVE  Joint(a, b, c, d)
  OBVIOUS
<1>1. b \o c \in UnitSeqs /\ c \o d \in UnitSeqs
  BY Joined
<1>2. (b \o c) \o d \in UnitSeqs
  BY <1>1, Joined
<1>3. (b \o c) \o d = b \o (c \o d)
  BY Associative
<1>4. (a \o b) \o c = a \o (b \o c)
  BY Associative
<1>5. PICK e \in UnitSeqs : e = b \o c
  BY <1>1
<1>6. (a \o e) \o d = a \o (e \o d)
  BY Associative
<1> QED
  BY <1>1, <1>2, <1>3, <1>4, <1>5, <1>6 DEF Joint

\* What is in the pipes begins with what is in the sockets, and whatever was
\* sent and has not been delivered is in them until they are cut.
Pipeline(s, k, w) ==
  /\ ToClientPipe(s, k, w) \in UnitSeqs /\ ToBackendPipe(s, k, w) \in UnitSeqs
  /\ \E r \in UnitSeqs : ToClientPipe(s, k, w) = w.clientOut \o r
  /\ \E r \in UnitSeqs : ToBackendPipe(s, k, w) = w.backendOut \o r
  /\ ~Gone(s, w.client) =>
       w.clientGot \o ToClientPipe(s, k, w) = Count(w.unitsSent)
  /\ ~Gone(s, w.backend) =>
       w.backendGot \o ToBackendPipe(s, k, w) = Count(w.recordsSent * RecordUnits)

LEMMA PipelineOK ==
  ASSUME NEW s, NEW k, NEW w, WireOK(w), s # "closed" => Fits(k, w)
  PROVE  Pipeline(s, k, w)
<1>1. PICK o \in UnitSeqs, p \in UnitSeqs, g \in UnitSeqs, h \in UnitSeqs, b \in UnitSeqs :
        /\ o = w.clientOut /\ p = w.backendOut /\ g = w.clientGot /\ h = w.backendGot
        /\ b = w.backendIn
  BY WireTyped
<1>2. o \o <<>> = o /\ p \o <<>> = p /\ <<>> \in UnitSeqs
  BY EmptyUnits
<1>3. ASSUME Gone(s, w.client)
      PROVE  /\ ToClientPipe(s, k, w) \in UnitSeqs
             /\ \E r \in UnitSeqs : ToClientPipe(s, k, w) = w.clientOut \o r
  <2>1. ToClientPipe(s, k, w) = o
    BY <1>1, <1>3 DEF ToClientPipe
  <2>2. \E r \in UnitSeqs : o = o \o r
    BY <1>2
  <2> QED
    BY <1>1, <2>1, <2>2
<1>4. ASSUME ~Gone(s, w.client)
      PROVE  /\ ToClientPipe(s, k, w) \in UnitSeqs
             /\ \E r \in UnitSeqs : ToClientPipe(s, k, w) = w.clientOut \o r
             /\ w.clientGot \o ToClientPipe(s, k, w) = Count(w.unitsSent)
  <2>1. Fits(k, w) /\ w.client # "reset" /\ k.toClient \in UnitSeqs
    BY <1>4, ConnTyped DEF Gone, Fits
  <2>2. w.pushed \in 0..Len(k.toClient)
    BY <2>1, WireTyped DEF Fits
  <2>3. PICK t \in UnitSeqs : t = RestOf(k.toClient, w.pushed)
    BY <2>1, <2>2, CutInTwo
  <2>4. ToClientPipe(s, k, w) = (o \o t) \o b
    BY <1>1, <1>4, <2>3 DEF ToClientPipe
  <2>5. /\ (o \o t) \o b \in UnitSeqs /\ t \o b \in UnitSeqs
        /\ (o \o t) \o b = o \o (t \o b)
        /\ ((g \o o) \o t) \o b = g \o ((o \o t) \o b)
    <3>1. Joint(g, o, t, b)
      BY Rejoined
    <3> QED
      BY <3>1 DEF Joint
  <2>6. ((g \o o) \o t) \o b = Count(w.unitsSent)
    BY <1>1, <2>1, <2>3 DEF Fits, ToClientOK, Arrived
  <2> QED
    BY <1>1, <2>4, <2>5, <2>6
<1>5. ASSUME Gone(s, w.backend)
      PROVE  /\ ToBackendPipe(s, k, w) \in UnitSeqs
             /\ \E r \in UnitSeqs : ToBackendPipe(s, k, w) = w.backendOut \o r
  <2>1. ToBackendPipe(s, k, w) = p
    BY <1>1, <1>5 DEF ToBackendPipe
  <2>2. \E r \in UnitSeqs : p = p \o r
    BY <1>2
  <2> QED
    BY <1>1, <2>1, <2>2
<1>6. ASSUME ~Gone(s, w.backend)
      PROVE  /\ ToBackendPipe(s, k, w) \in UnitSeqs
             /\ \E r \in UnitSeqs : ToBackendPipe(s, k, w) = w.backendOut \o r
             /\ w.backendGot \o ToBackendPipe(s, k, w) = Count(w.recordsSent * RecordUnits)
  <2>1. Fits(k, w) /\ w.backend # "reset" /\ k.toBackend \in UnitSeqs
    BY <1>6, ConnTyped DEF Gone, Fits
  <2>2. PICK t \in UnitSeqs, u \in UnitSeqs :
          /\ t = k.toBackend /\ u = UnitsOf(Unread(w))
          /\ ((h \o p) \o t) \o u = Count(w.recordsSent * RecordUnits)
    BY <1>1, <2>1, UnreadCounted DEF Reached
  <2>3. ToBackendPipe(s, k, w) = (p \o t) \o u
    BY <1>1, <1>6, <2>2 DEF ToBackendPipe
  <2>4. /\ (p \o t) \o u \in UnitSeqs /\ t \o u \in UnitSeqs
        /\ (p \o t) \o u = p \o (t \o u)
        /\ ((h \o p) \o t) \o u = h \o ((p \o t) \o u)
    <3>1. Joint(h, p, t, u)
      BY Rejoined
    <3> QED
      BY <3>1 DEF Joint
  <2> QED
    BY <1>1, <2>2, <2>3, <2>4
<1> QED
  BY <1>3, <1>4, <1>5, <1>6 DEF Pipeline

\* What completes a count is determined by it.
Completed(g, f, e, a, n) ==
  g \o f = Count(a) /\ g \o e = Count(a + n) =>
    e = f \o P!Run(a, n) /\ (n = 0 => e = f)

LEMMA Completes ==
  \A g, f, e \in UnitSeqs : \A a, n \in Nat : Completed(g, f, e, a, n)
<1> SUFFICES ASSUME NEW g \in UnitSeqs, NEW f \in UnitSeqs, NEW e \in UnitSeqs,
                    NEW a \in Nat, NEW n \in Nat
             PROVE  Completed(g, f, e, a, n)
  OBVIOUS
<1> SUFFICES ASSUME g \o f = Count(a), g \o e = Count(a + n)
             PROVE  e = f \o P!Run(a, n) /\ (n = 0 => e = f)
  BY DEF Completed
<1> DEFINE t == [i \in 1..n |-> a + i]
<1>1. \A x, y, z \in UnitSeqs : x \o y = x \o z => y = z
  BY ConcatSimplifications DEF UnitSeqs
<1>2. t \in UnitSeqs
  <2>1. g \o e \in Seq(Unit)
    BY Joined DEF UnitSeqs
  <2>2. Count(a + n) \in Seq(Unit) /\ Len(Count(a + n)) = a + n
    BY <2>1 DEF Count
  <2>3. \A j \in 1..a + n : Count(a + n)[j] \in Unit /\ Count(a + n)[j] = j
    BY <2>2, ElementOfSeq DEF Count
  <2>4. \A i \in 1..n : a + i \in Unit
    BY <2>3
  <2> QED
    BY <2>4 DEF UnitSeqs
<1>3. PICK r \in UnitSeqs : r = t
  BY <1>2
<1>4. Count(a) \in UnitSeqs /\ Count(a) \o r = Count(a + n)
  <2>1. PICK s \in UnitSeqs : s = g \o f /\ s = Count(a)
    BY Joined
  <2>2. s \o r = Count(a + n)
    BY <1>3, <2>1, CountOn
  <2> QED
    BY <2>1, <2>2
<1>5. (g \o f) \o r = g \o (f \o r) /\ f \o r \in UnitSeqs
  <2>1. Joint(g, f, r, r)
    BY Rejoined
  <2> QED
    BY <2>1, Joined DEF Joint
<1>6. e = f \o r
  BY <1>1, <1>4, <1>5
<1>7. n = 0 => r = <<>>
  BY <1>3
<1>8. f \o <<>> = f
  BY EmptyUnits
<1> QED
  BY <1>3, <1>6, <1>7, <1>8 DEF P!Run

\* The first unit of a pipe is the first in the socket.
LEMMA FirstOut ==
  ASSUME NEW a \in UnitSeqs, NEW b \in UnitSeqs, a # <<>>
  PROVE  /\ a \o b # <<>> /\ Head(a \o b) = Head(a) /\ Tail(a \o b) = Tail(a) \o b
<1>1. PICK c \in Seq(Unit) :
        /\ c = a \o b /\ Len(c) = Len(a) + Len(b)
        /\ \A i \in 1..Len(a) + Len(b) : c[i] = IF i <= Len(a) THEN a[i] ELSE b[i - Len(a)]
  <2>1. /\ a \o b \in Seq(Unit) /\ Len(a \o b) = Len(a) + Len(b)
        /\ \A i \in 1..Len(a) + Len(b) :
             (a \o b)[i] = IF i <= Len(a) THEN a[i] ELSE b[i - Len(a)]
    BY ConcatProperties DEF UnitSeqs
  <2> QED
    BY <2>1, Zenon
<1>2. Len(a) \in Nat /\ Len(b) \in Nat /\ Len(a) >= 1
  BY EmptyUnits, LenProperties DEF UnitSeqs
<1>3. c # <<>>
  BY <1>1, <1>2
<1>4. PICK t \in Seq(Unit) : /\ t = Tail(a) /\ Head(a) = a[1] /\ Len(t) = Len(a) - 1
                             /\ \A i \in 1..Len(t) : t[i] = a[i + 1]
  <2>1. /\ Tail(a) \in Seq(Unit) /\ Len(Tail(a)) = Len(a) - 1
        /\ \A i \in 1..Len(Tail(a)) : Tail(a)[i] = a[i + 1]
    BY HeadTailProperties DEF UnitSeqs
  <2>2. Head(a) = a[1]
    BY DEF UnitSeqs
  <2> QED
    BY <2>1, <2>2, Zenon
<1>5. PICK u \in Seq(Unit) : /\ u = Tail(c) /\ Head(c) = c[1] /\ Len(u) = Len(c) - 1
                             /\ \A i \in 1..Len(u) : u[i] = c[i + 1]
  <2>1. /\ Tail(c) \in Seq(Unit) /\ Len(Tail(c)) = Len(c) - 1
        /\ \A i \in 1..Len(Tail(c)) : Tail(c)[i] = c[i + 1]
    BY <1>3, HeadTailProperties
  <2>2. Head(c) = c[1]
    OBVIOUS
  <2> QED
    BY <2>1, <2>2, Zenon
<1>6. PICK v \in Seq(Unit) :
        /\ v = t \o b /\ Len(v) = Len(t) + Len(b)
        /\ \A i \in 1..Len(t) + Len(b) : v[i] = IF i <= Len(t) THEN t[i] ELSE b[i - Len(t)]
  <2>1. /\ t \o b \in Seq(Unit) /\ Len(t \o b) = Len(t) + Len(b)
        /\ \A i \in 1..Len(t) + Len(b) :
             (t \o b)[i] = IF i <= Len(t) THEN t[i] ELSE b[i - Len(t)]
    BY ConcatProperties DEF UnitSeqs
  <2> QED
    BY <2>1, Zenon
<1>7. Head(c) = Head(a)
  BY <1>1, <1>2, <1>4, <1>5
<1>8. Len(u) = Len(v)
  BY <1>1, <1>2, <1>4, <1>5, <1>6
<1>9. ASSUME NEW i \in 1..Len(u) PROVE u[i] = v[i]
  <2>1. /\ i \in 1..Len(t) + Len(b) /\ i + 1 \in 1..Len(a) + Len(b)
        /\ i <= Len(t) <=> i + 1 <= Len(a)
        /\ i - Len(t) = (i + 1) - Len(a)
    BY <1>1, <1>2, <1>4, <1>5
  <2>2. u[i] = c[i + 1]
    BY <1>5
  <2>3. c[i + 1] = IF i + 1 <= Len(a) THEN a[i + 1] ELSE b[(i + 1) - Len(a)]
    BY <1>1, <2>1
  <2>4. v[i] = IF i <= Len(t) THEN t[i] ELSE b[i - Len(t)]
    BY <1>6, <2>1
  <2>5. i <= Len(t) => t[i] = a[i + 1]
    BY <1>2, <1>4, <2>1
  <2> QED
    BY <2>1, <2>2, <2>3, <2>4, <2>5
<1> QED
  BY <1>1, <1>3, <1>4, <1>5, <1>6, <1>7, <1>8, <1>9, SeqEqual

\* What is cut from a pipe is its end.
StartOf(p, c) == \E n \in 0..Len(p) : c = SubSeq(p, 1, n)

LEMMA Ending ==
  ASSUME NEW a \in UnitSeqs, NEW b \in UnitSeqs
  PROVE  StartOf(a \o b, a) /\ StartOf(a \o b, <<>>)
<1>1. PICK s \in UnitSeqs : s = a \o b /\ Len(s) = Len(a) + Len(b)
  BY Joined
<1>2. Len(a) \in Nat /\ Len(b) \in Nat
  BY LenProperties DEF UnitSeqs
<1>3. SubSeq(s, 1, 0) = <<>> /\ 0 \in 0..Len(s)
  BY <1>1, <1>2, SubSeqEmpty
<1>4. SubSeq(s, 1, Len(a)) = a /\ Len(a) \in 0..Len(s)
  <2>1. CASE a = <<>>
    BY <1>1, <1>2, <1>3, <2>1, EmptyUnits
  <2>2. CASE a # <<>>
    <3>1. Len(a) >= 1
      BY <1>2, <2>2, EmptyUnits
    <3>2. 1 \in 1..Len(a) /\ Len(a) \in 1..Len(a) /\ Len(a) \in 0..Len(s)
      BY <1>1, <1>2, <3>1
    <3>3. SubSeq(s, 1, Len(a)) = SubSeq(a, 1, Len(a))
      BY <1>1, <3>2, SubSeqOfConcat1 DEF UnitSeqs
    <3>4. SubSeq(a, 1, Len(a)) = a
      BY SubSeqFull DEF UnitSeqs
    <3> QED
      BY <3>2, <3>3, <3>4
  <2> QED
    BY <2>1, <2>2
<1> QED
  BY <1>1, <1>3, <1>4 DEF StartOf

\* A step that only moves units within the pipes, and nothing into the socket
\* of a peer that is gone.
Untouched(w, v) ==
  /\ v.client = "reset" <=> w.client = "reset"
  /\ v.backend = "reset" <=> w.backend = "reset"
  /\ v.unitsSent = w.unitsSent /\ v.recordsSent = w.recordsSent
  /\ v.clientGot = w.clientGot /\ v.backendGot = w.backendGot
  /\ w.client = "reset" => v.clientOut = w.clientOut
  /\ w.backend = "reset" => v.backendOut = w.backendOut

SameOut(w, v) == v.clientOut = w.clientOut /\ v.backendOut = w.backendOut

\* A callback that closes the pair has sent nothing before.
Quiet(w, o) ==
  /\ o.end # "kill" => Untouched(w, o.wire)
  /\ o.end = "close" => SameOut(w, o.wire)

LEMMA QuietAfter ==
  ASSUME NEW w, NEW v, NEW o, Untouched(w, v), SameOut(w, v), Quiet(v, o)
  PROVE  Quiet(w, o)
BY DEF Quiet, Untouched, SameOut

LEMMA QuietStreams ==
  ASSUME NEW w, NEW v, SameStreams(w, v)
  PROVE  Untouched(w, v) /\ SameOut(w, v)
BY DEF SameStreams, Untouched, SameOut

LEMMA QuietOutcome ==
  ASSUME NEW k, NEW w, NEW v, NEW masks, Untouched(w, v)
  PROVE  /\ Quiet(w, Outcome(k, v, masks, "open"))
         /\ Quiet(w, Outcome(k, v, masks, "kill"))
         /\ SameOut(w, v) => Quiet(w, Closed(k, v))
BY DEF Quiet, Outcome, Closed

LEMMA ShakeTyped ==
  ASSUME NEW w, WireOK(w)
  PROVE  Shake(w) \in WireType /\ Untouched(w, Shake(w)) /\ SameOut(w, Shake(w))
<1>1. CASE w.shaken
  BY <1>1 DEF Shake, Untouched, SameOut, WireOK
<1>2. CASE ~w.shaken
  <2>1. PICK f : f = Filled(w) /\ f \in WireType /\ SameStreams(w, f)
    BY FilledOK
  <2>2. CASE f.ssl = <<>>
    BY <1>2, <2>1, <2>2, QuietStreams DEF Shake
  <2>3. CASE f.ssl # <<>>
    <3>1. PICK t \in Seq(Records) : t = Tail(f.ssl)
      <4>1. f.ssl \in Seq(Records)
        BY <2>1 DEF WireType
      <4> QED
        BY <2>3, <4>1, HeadTailProperties
    <3>2. PICK g : g = [f EXCEPT !.shaken = TRUE, !.ssl = t]
      OBVIOUS
    <3>3. Shake(w) = g
      BY <1>2, <2>1, <2>3, <3>1, <3>2 DEF Shake
    <3>4. g \in WireType /\ SameStreams(f, g)
      BY <2>1, <3>2 DEF WireType, SameStreams
    <3>5. SameStreams(w, g)
      BY <2>1, <3>4 DEF SameStreams
    <3> QED
      BY <3>3, <3>4, <3>5, QuietStreams
  <2> QED
    BY <2>2, <2>3
<1> QED
  BY <1>1, <1>2

\* A send() to a backend that is there.
LEMMA SentToBackend ==
  ASSUME NEW w, w \in WireType, w.backend # "reset", NEW x
  PROVE  Untouched(w, [w EXCEPT !.backendOut = x])
BY DEF Untouched, WireType

LEMMA WriteToBackendQuiet ==
  ASSUME NEW k, NEW w, w \in WireType, NEW data, NEW masks,
         NEW o \in WriteToBackend(k, w, data, masks)
  PROVE  Quiet(w, o)
<1>1. PICK n : n = Shorter(Capacity - Len(w.backendOut), Len(data))
  OBVIOUS
<1>2. PICK v : v = [w EXCEPT !.backendOut = @ \o FirstOf(data, n)]
  OBVIOUS
<1>3. Untouched(w, w)
  BY DEF Untouched
<1>4. CASE w.backend = "reset"
  <2>1. \/ o = Outcome([k EXCEPT !.toBackend = data], w, ToBackend, "open")
        \/ o = Outcome(k, w, <<>>, "kill")
    BY <1>4 DEF WriteToBackend, OnReset
  <2> QED
    BY <1>3, <2>1, QuietOutcome
<1>5. CASE w.backend # "reset"
  <2>1. \/ o = Outcome(k, v, masks, "open")
        \/ o = Outcome([k EXCEPT !.toBackend = RestOf(data, n)], v, ToBackend, "open")
    BY <1>1, <1>2, <1>5 DEF WriteToBackend
  <2>2. Untouched(w, v)
    BY <1>2, <1>5, SentToBackend
  <2> QED
    BY <2>1, <2>2, QuietOutcome
<1> QED
  BY <1>4, <1>5

LEMMA FlushToBackendQuiet ==
  ASSUME NEW k, NEW w, w \in WireType, NEW masks,
         NEW o \in FlushToBackend(k, w, masks)
  PROVE  Quiet(w, o)
<1>1. PICK n : n = Shorter(Capacity - Len(w.backendOut), Len(k.toBackend))
  OBVIOUS
<1>2. PICK v : v = [w EXCEPT !.backendOut = @ \o FirstOf(k.toBackend, n)]
  OBVIOUS
<1>3. Untouched(w, w) /\ SameOut(w, w)
  BY DEF Untouched, SameOut
<1>4. CASE w.backend = "reset"
  <2>1. o = Closed(k, w) \/ o = Outcome(k, w, <<>>, "kill")
    BY <1>4 DEF FlushToBackend, OnReset
  <2> QED
    BY <1>3, <2>1, QuietOutcome
<1>5. CASE w.backend # "reset"
  <2>1. PICK m : o = Outcome([k EXCEPT !.toBackend = RestOf(@, n)], v, m, "open")
    BY <1>1, <1>2, <1>5 DEF FlushToBackend
  <2>2. Untouched(w, v)
    BY <1>2, <1>5, SentToBackend
  <2> QED
    BY <2>1, <2>2, QuietOutcome
<1> QED
  BY <1>4, <1>5

LEMMA TryWriteToClientQuiet ==
  ASSUME NEW k, NEW w, WireOK(w), ~k.backendEOF, NEW pending, NEW masks,
         NEW o \in TryWriteToClient(k, w, pending, masks)
  PROVE  Quiet(w, o)
<1>1. PICK s : s = Shake(w) /\ s \in WireType /\ Untouched(w, s) /\ SameOut(w, s)
  BY ShakeTyped
<1>2. PICK n : n = Shorter(Capacity - Len(s.clientOut), Len(k.toClient) - s.pushed)
  OBVIOUS
<1>3. PICK p : p = [s EXCEPT !.clientOut = @ \o FirstOf(RestOf(k.toClient, s.pushed), n),
                             !.pushed = @ + n]
  OBVIOUS
<1>4. PICK d, q, retry, m : /\ d = [k EXCEPT !.toClient = <<>>]
                            /\ q = [p EXCEPT !.pushed = 0]
                            /\ retry = (IF pending THEN masks ELSE ToClient)
                            /\ m = (IF pending THEN Relaying ELSE masks)
  OBVIOUS
<1>5. \/ o = Closed(k, s) \/ o = Outcome(k, s, retry, "open")
      \/ o = Outcome(k, s, <<>>, "kill")
      \/ s.client # "reset" /\ o = Outcome(k, p, retry, "open")
      \/ s.client # "reset" /\ o = Outcome(d, q, m, "open")
  BY <1>1, <1>2, <1>3, <1>4 DEF TryWriteToClient, OnReset
<1>6. Quiet(w, Closed(k, s)) /\ Quiet(w, Outcome(k, s, retry, "open"))
      /\ Quiet(w, Outcome(k, s, <<>>, "kill"))
  BY <1>1, QuietOutcome
<1>7. ASSUME s.client # "reset" PROVE Untouched(s, p) /\ Untouched(s, q)
  BY <1>1, <1>3, <1>4, <1>7 DEF WireType, Untouched
<1>8. ASSUME s.client # "reset" PROVE Untouched(w, p) /\ Untouched(w, q)
  BY <1>1, <1>7, <1>8 DEF Untouched
<1>9. s.client # "reset" =>
        Quiet(w, Outcome(k, p, retry, "open")) /\ Quiet(w, Outcome(d, q, m, "open"))
  BY <1>8, QuietOutcome
<1> QED
  BY <1>5, <1>6, <1>9

LEMMA ReadFromBackendQuiet ==
  ASSUME NEW k, NEW w, k \in ConnType, WireOK(w), ~k.backendEOF, NEW masks,
         NEW o \in ReadFromBackend(k, w, masks)
  PROVE  Quiet(w, o)
<1>1. PICK data : data = FirstOf(w.backendIn, BufUnits)
  OBVIOUS
<1>2. PICK j, v : /\ j = [k EXCEPT !.toClient = data]
                  /\ v = [w EXCEPT !.backendIn = RestOf(@, Len(data))]
  OBVIOUS
<1>3. Untouched(w, w) /\ SameOut(w, w)
  BY DEF Untouched, SameOut
<1>4. CASE data # <<>>
  <2>1. o \in TryWriteToClient(j, v, FALSE, masks)
    BY <1>1, <1>2, <1>4 DEF ReadFromBackend
  <2>2. ~j.backendEOF
    BY <1>2 DEF ConnType
  <2>3. Untouched(w, v) /\ SameOut(w, v) /\ Arrived(v) = Arrived(w) /\ Reached(v) = Reached(w)
    BY <1>2 DEF WireOK, WireType, Untouched, SameOut, Arrived, Reached
  <2>4. v \in WireType
    <3>1. w.backendIn \in UnitSeqs /\ w \in WireType
      BY WireTyped DEF WireOK
    <3>2. Len(w.backendIn) \in Nat /\ Len(data) \in 0..Len(w.backendIn)
      <4>1. PICK b \in Nat : b = Shorter(BufUnits, Len(w.backendIn)) /\ b <= Len(w.backendIn)
        BY <3>1, Sizes, LenProperties DEF Shorter, UnitSeqs
      <4>2. Len(w.backendIn) \in Nat /\ b \in 0..Len(w.backendIn)
        BY <3>1, <4>1, LenProperties DEF UnitSeqs
      <4>3. data = SubSeq(w.backendIn, 1, b)
        BY <1>1, <4>1 DEF FirstOf
      <4>4. FirstOf(w.backendIn, b) = SubSeq(w.backendIn, 1, b)
        BY <4>2 DEF FirstOf, Shorter
      <4>5. Len(FirstOf(w.backendIn, b)) = b
        BY <3>1, <4>2, CutInTwo
      <4> QED
        BY <4>2, <4>3, <4>4, <4>5
    <3>3. PICK r \in UnitSeqs : r = RestOf(w.backendIn, Len(data))
      BY <3>1, <3>2, CutInTwo
    <3>4. v = [w EXCEPT !.backendIn = r]
      BY <1>2, <3>3
    <3> QED
      BY <3>1, <3>4 DEF WireType
  <2>5. WireOK(v)
    BY <2>3, <2>4 DEF WireOK, SameOut
  <2>6. Quiet(v, o)
    BY <2>1, <2>2, <2>5, TryWriteToClientQuiet
  <2> QED
    BY <2>3, <2>6, QuietAfter
<1>5. CASE data = <<>>
  <2>1. \/ o = Outcome(k, w, masks, "open") \/ o = Closed(k, w)
        \/ o = Outcome([k EXCEPT !.backendEOF = TRUE], w, masks, "open")
    BY <1>1, <1>5 DEF ReadFromBackend
  <2> QED
    BY <1>3, <2>1, QuietOutcome
<1> QED
  BY <1>4, <1>5

LEMMA ReadFromClientQuiet ==
  ASSUME NEW k, NEW w, WireOK(w), NEW masks, NEW o \in ReadFromClient(k, w, masks)
  PROVE  Quiet(w, o)
<1>1. PICK f : f = Filled(w) /\ f \in WireType /\ SameStreams(w, f)
  BY FilledOK
<1>2. Untouched(w, f) /\ SameOut(w, f)
  BY <1>1, QuietStreams
<1>3. CASE f.ssl # <<>>
  <2>1. PICK t \in Seq(Records) : t = Tail(f.ssl)
    <3>1. f.ssl \in Seq(Records)
      BY <1>1 DEF WireType
    <3> QED
      BY <1>3, <3>1, HeadTailProperties
  <2>2. PICK v : v = [f EXCEPT !.ssl = t]
    OBVIOUS
  <2>3. v \in WireType /\ Untouched(f, v) /\ SameOut(f, v)
    BY <1>1, <2>2 DEF WireType, Untouched, SameOut
  <2>4. o \in WriteToBackend(k, v, Units(Head(f.ssl)), masks)
    BY <1>1, <1>3, <2>1, <2>2 DEF ReadFromClient
  <2>5. Quiet(v, o)
    BY <2>3, <2>4, WriteToBackendQuiet
  <2>6. Quiet(f, o)
    BY <2>3, <2>5, QuietAfter
  <2> QED
    BY <1>2, <2>6, QuietAfter
<1>4. CASE f.ssl = <<>>
  <2>1. o = Closed(k, f) \/ o = Outcome(k, f, masks, "open")
    BY <1>1, <1>4 DEF ReadFromClient
  <2> QED
    BY <1>2, <2>1, QuietOutcome
<1> QED
  BY <1>3, <1>4

\* What the callbacks of a pair do to its pipes: nothing.
LEMMA CallbacksQuiet ==
  ASSUME NEW k, NEW w, Fits(k, w), NEW masks,
         NEW o \in OnClientFdEvent(k, w, masks) \cup OnBackendFdEvent(k, w, masks)
  PROVE  Quiet(w, o)
<1>1. k \in ConnType /\ WireOK(w) /\ ~k.backendEOF
  BY DEF Fits
<1>2. CASE o \in OnBackendFdEvent(k, w, masks)
  <2>1. w \in WireType
    BY <1>1 DEF WireOK
  <2> QED
    BY <1>1, <1>2, <2>1, FlushToBackendQuiet, ReadFromBackendQuiet DEF OnBackendFdEvent
<1>3. CASE o \in OnClientFdEvent(k, w, masks)
  <2>1. PICK s : /\ s = IF k.secure THEN w ELSE Shake(w)
                 /\ WireOK(s) /\ Untouched(w, s) /\ SameOut(w, s)
    <3>1. CASE k.secure
      BY <1>1, <3>1 DEF Untouched, SameOut
    <3>2. CASE ~k.secure
      BY <3>2, ShakeFits, QuietStreams DEF Fits
    <3> QED
      BY <3>1, <3>2
  <2>2. CASE k.toClient # <<>>
    BY <1>1, <1>3, <2>2, TryWriteToClientQuiet DEF OnClientFdEvent
  <2>3. CASE k.toClient = <<>> /\ s.shaken
    <3>1. o \in ReadFromClient([k EXCEPT !.secure = TRUE], s, masks)
      BY <1>3, <2>1, <2>3 DEF OnClientFdEvent
    <3>2. Quiet(s, o)
      BY <2>1, <3>1, ReadFromClientQuiet
    <3> QED
      BY <2>1, <3>2, QuietAfter
  <2>4. CASE k.toClient = <<>> /\ ~s.shaken
    <3>1. o = Closed(k, s) \/ o = Outcome(k, s, masks, "open")
      BY <1>3, <2>1, <2>4 DEF OnClientFdEvent
    <3> QED
      BY <2>1, <3>1, QuietOutcome
  <2> QED
    BY <2>2, <2>3, <2>4
<1> QED
  BY <1>2, <1>3

\* Towards the client: what a step adds to what was sent it adds to the pipe,
\* and if it adds nothing it leaves the pipe alone.
MoreToClient(s, w, t, v, n) ==
  /\ Gone(t, v.client) <=> Gone(s, w.client)
  /\ Gone(s, w.client) => v.clientOut = w.clientOut
  /\ v.clientGot = w.clientGot
  /\ v.unitsSent = w.unitsSent + n

LEMMA ToClientGrows ==
  ASSUME NEW s, NEW k, NEW w, WireOK(w), s # "closed" => Fits(k, w),
         NEW t, NEW j, NEW v, WireOK(v), t # "closed" => Fits(j, v),
         NEW n \in Nat, MoreToClient(s, w, t, v, n)
  PROVE  /\ ToClientPipe(t, j, v)
              = (IF Gone(s, w.client) THEN ToClientPipe(s, k, w)
                 ELSE ToClientPipe(s, k, w) \o P!Run(w.unitsSent, n))
         /\ n = 0 => ToClientPipe(t, j, v) = ToClientPipe(s, k, w)
<1>0. /\ Gone(t, v.client) <=> Gone(s, w.client)
      /\ Gone(s, w.client) => v.clientOut = w.clientOut
      /\ v.clientGot = w.clientGot /\ v.unitsSent = w.unitsSent + n
  BY DEF MoreToClient
<1>1. CASE Gone(s, w.client)
  BY <1>0, <1>1 DEF ToClientPipe
<1>2. CASE ~Gone(s, w.client)
  <2>1. PICK g \in UnitSeqs, f \in UnitSeqs, a \in Nat :
          /\ g = w.clientGot /\ f = ToClientPipe(s, k, w) /\ a = w.unitsSent
          /\ g \o f = Count(a)
    <3>1. Pipeline(s, k, w)
      BY PipelineOK
    <3>2. w.clientGot \in UnitSeqs /\ w.unitsSent \in Nat
      BY WireTyped
    <3> QED
      BY <1>2, <3>1, <3>2 DEF Pipeline
  <2>2. PICK e \in UnitSeqs : /\ e = ToClientPipe(t, j, v)
                              /\ v.clientGot \o e = Count(v.unitsSent)
    <3>1. Pipeline(t, j, v)
      BY PipelineOK
    <3> QED
      BY <1>0, <1>2, <3>1 DEF Pipeline
  <2>3. g \o e = Count(a + n)
    BY <1>0, <2>1, <2>2
  <2>4. e = f \o P!Run(a, n) /\ (n = 0 => e = f)
    <3>1. Completed(g, f, e, a, n)
      BY Completes
    <3> QED
      BY <2>1, <2>3, <3>1 DEF Completed
  <2> QED
    BY <1>2, <2>1, <2>2, <2>4
<1> QED
  BY <1>1, <1>2

\* The same towards the backend.
MoreToBackend(s, w, t, v, n) ==
  /\ Gone(t, v.backend) <=> Gone(s, w.backend)
  /\ Gone(s, w.backend) => v.backendOut = w.backendOut
  /\ v.backendGot = w.backendGot
  /\ v.recordsSent * RecordUnits = w.recordsSent * RecordUnits + n

LEMMA ToBackendGrows ==
  ASSUME NEW s, NEW k, NEW w, WireOK(w), s # "closed" => Fits(k, w),
         NEW t, NEW j, NEW v, WireOK(v), t # "closed" => Fits(j, v),
         NEW n \in Nat, MoreToBackend(s, w, t, v, n)
  PROVE  /\ ToBackendPipe(t, j, v)
              = (IF Gone(s, w.backend) THEN ToBackendPipe(s, k, w)
                 ELSE ToBackendPipe(s, k, w) \o P!Run(w.recordsSent * RecordUnits, n))
         /\ n = 0 => ToBackendPipe(t, j, v) = ToBackendPipe(s, k, w)
<1>0. /\ Gone(t, v.backend) <=> Gone(s, w.backend)
      /\ Gone(s, w.backend) => v.backendOut = w.backendOut
      /\ v.backendGot = w.backendGot
      /\ v.recordsSent * RecordUnits = w.recordsSent * RecordUnits + n
  BY DEF MoreToBackend
<1>1. CASE Gone(s, w.backend)
  BY <1>0, <1>1 DEF ToBackendPipe
<1>2. CASE ~Gone(s, w.backend)
  <2>1. PICK g \in UnitSeqs, f \in UnitSeqs, a \in Nat :
          /\ g = w.backendGot /\ f = ToBackendPipe(s, k, w) /\ a = w.recordsSent * RecordUnits
          /\ g \o f = Count(a)
    <3>1. w.recordsSent * RecordUnits \in Nat
      <4>1. w.recordsSent \in Nat /\ RecordUnits \in Nat
        BY WireTyped, Sizes
      <4> QED
        BY <4>1
    <3>2. Pipeline(s, k, w) /\ w.backendGot \in UnitSeqs
      BY PipelineOK, WireTyped
    <3> QED
      BY <1>2, <3>1, <3>2 DEF Pipeline
  <2>2. PICK e \in UnitSeqs : /\ e = ToBackendPipe(t, j, v)
                              /\ v.backendGot \o e = Count(v.recordsSent * RecordUnits)
    <3>1. Pipeline(t, j, v)
      BY PipelineOK
    <3> QED
      BY <1>0, <1>2, <3>1 DEF Pipeline
  <2>3. g \o e = Count(a + n)
    BY <1>0, <2>1, <2>2
  <2>4. e = f \o P!Run(a, n) /\ (n = 0 => e = f)
    <3>1. Completed(g, f, e, a, n)
      BY Completes
    <3> QED
      BY <2>1, <2>3, <3>1 DEF Completed
  <2> QED
    BY <1>2, <2>1, <2>2, <2>4
<1> QED
  BY <1>1, <1>2

LEMMA UntouchedPipes ==
  ASSUME NEW s, NEW k, NEW w, WireOK(w), s # "closed" => Fits(k, w),
         NEW t, NEW j, NEW v, WireOK(v), t # "closed" => Fits(j, v),
         t = "closed" <=> s = "closed", Untouched(w, v), s = "closed" => SameOut(w, v)
  PROVE  /\ ToClientPipe(t, j, v) = ToClientPipe(s, k, w)
         /\ ToBackendPipe(t, j, v) = ToBackendPipe(s, k, w)
         /\ Gone(t, v.client) <=> Gone(s, w.client)
         /\ Gone(t, v.backend) <=> Gone(s, w.backend)
<1>1. /\ Gone(t, v.client) <=> Gone(s, w.client)
      /\ Gone(t, v.backend) <=> Gone(s, w.backend)
      /\ Gone(s, w.client) => v.clientOut = w.clientOut
      /\ Gone(s, w.backend) => v.backendOut = w.backendOut
  BY DEF Gone, Untouched, SameOut
<1>2. v.clientGot = w.clientGot /\ v.backendGot = w.backendGot
  BY DEF Untouched
<1>3. v.unitsSent = w.unitsSent + 0
  <2>1. w.unitsSent \in Nat /\ v.unitsSent = w.unitsSent
    BY WireTyped DEF Untouched
  <2> QED
    BY <2>1
<1>4. v.recordsSent * RecordUnits = w.recordsSent * RecordUnits + 0
  <2>1. w.recordsSent \in Nat /\ v.recordsSent = w.recordsSent /\ RecordUnits \in Nat
    BY WireTyped, Sizes DEF Untouched
  <2> QED
    BY <2>1
<1>5. 0 \in Nat
  OBVIOUS
<1>6. ToClientPipe(t, j, v) = ToClientPipe(s, k, w)
  <2>1. MoreToClient(s, w, t, v, 0)
    BY <1>1, <1>2, <1>3 DEF MoreToClient
  <2> QED
    BY <1>5, <2>1, ToClientGrows
<1>7. ToBackendPipe(t, j, v) = ToBackendPipe(s, k, w)
  <2>1. MoreToBackend(s, w, t, v, 0)
    BY <1>1, <1>2, <1>4 DEF MoreToBackend
  <2> QED
    BY <1>5, <2>1, ToBackendGrows
<1> QED
  BY <1>1, <1>6, <1>7

\* A peer takes the first unit of its pipe.
ClientTook(w, v) ==
  /\ v.clientGot = Append(w.clientGot, Head(w.clientOut))
  /\ v.clientOut = Tail(w.clientOut) /\ v.client = w.client /\ v.pushed = w.pushed
  /\ v.backendIn = w.backendIn /\ v.backend = w.backend /\ v.backendOut = w.backendOut
  /\ v.shaken = w.shaken /\ v.ssl = w.ssl /\ v.clientIn = w.clientIn

LEMMA ClientTakes ==
  ASSUME NEW s, NEW k, NEW w, WireOK(w), s # "closed" => Fits(k, w),
         w.client # "reset", w.clientOut # <<>>,
         NEW v, ClientTook(w, v)
  PROVE  /\ ToClientPipe(s, k, w) # <<>>
         /\ v.clientGot = Append(w.clientGot, Head(ToClientPipe(s, k, w)))
         /\ ToClientPipe(s, k, v) = Tail(ToClientPipe(s, k, w))
         /\ ToBackendPipe(s, k, v) = ToBackendPipe(s, k, w)
<1>1. w \in WireType /\ w.clientOut \in UnitSeqs /\ w.backendIn \in UnitSeqs
  BY WireTyped DEF WireOK
<1>3. ToBackendPipe(s, k, v) = ToBackendPipe(s, k, w)
  BY DEF ToBackendPipe, Unread, ClientTook
<1>4. CASE Gone(s, w.client)
  BY <1>3, <1>4 DEF ToClientPipe, ClientTook
<1>5. CASE ~Gone(s, w.client)
  <2>1. Fits(k, w) /\ k.toClient \in UnitSeqs
    BY <1>5, ConnTyped DEF Gone, Fits
  <2>2. w.pushed \in 0..Len(k.toClient)
    BY <2>1, WireTyped DEF Fits
  <2>3. PICK o \in UnitSeqs, r \in UnitSeqs, b \in UnitSeqs :
          o = w.clientOut /\ r = RestOf(k.toClient, w.pushed) /\ b = w.backendIn
    BY <1>1, <2>1, <2>2, CutInTwo
  <2>4. PICK p \in UnitSeqs : /\ p = o \o r /\ p # <<>> /\ Head(p) = Head(o)
                              /\ Tail(p) = Tail(o) \o r
    <3>1. o \o r \in UnitSeqs /\ o # <<>>
      BY <2>3, Joined
    <3>2. o \o r # <<>> /\ Head(o \o r) = Head(o) /\ Tail(o \o r) = Tail(o) \o r
      BY <3>1, FirstOut
    <3> QED
      BY <3>1, <3>2
  <2>5. p \o b # <<>> /\ Head(p \o b) = Head(p) /\ Tail(p \o b) = Tail(p) \o b
    BY <2>4, FirstOut
  <2>6. ToClientPipe(s, k, w) = p \o b /\ ToClientPipe(s, k, v) = Tail(p) \o b
    BY <1>5, <2>3, <2>4 DEF ToClientPipe, ClientTook
  <2> QED
    BY <1>3, <2>3, <2>4, <2>5, <2>6 DEF ClientTook
<1> QED
  BY <1>4, <1>5

BackendTook(w, v) ==
  /\ v.backendGot = Append(w.backendGot, Head(w.backendOut))
  /\ v.backendOut = Tail(w.backendOut) /\ v.client = w.client /\ v.pushed = w.pushed
  /\ v.backendIn = w.backendIn /\ v.backend = w.backend /\ v.clientOut = w.clientOut
  /\ v.shaken = w.shaken /\ v.ssl = w.ssl /\ v.clientIn = w.clientIn

LEMMA BackendTakes ==
  ASSUME NEW s, NEW k, NEW w, WireOK(w), s # "closed" => Fits(k, w),
         w.backend # "reset", w.backendOut # <<>>,
         NEW v, BackendTook(w, v)
  PROVE  /\ ToBackendPipe(s, k, w) # <<>>
         /\ v.backendGot = Append(w.backendGot, Head(ToBackendPipe(s, k, w)))
         /\ ToBackendPipe(s, k, v) = Tail(ToBackendPipe(s, k, w))
         /\ ToClientPipe(s, k, v) = ToClientPipe(s, k, w)
<1>1. w \in WireType /\ w.backendOut \in UnitSeqs
  BY WireTyped DEF WireOK
<1>3. ToClientPipe(s, k, v) = ToClientPipe(s, k, w)
  BY DEF ToClientPipe, BackendTook
<1>4. CASE Gone(s, w.backend)
  BY <1>3, <1>4 DEF ToBackendPipe, BackendTook
<1>5. CASE ~Gone(s, w.backend)
  <2>1. Fits(k, w) /\ k.toBackend \in UnitSeqs /\ w.backend # "reset"
    BY <1>5, ConnTyped DEF Gone, Fits
  <2>2. PICK o \in UnitSeqs, r \in UnitSeqs, b \in UnitSeqs :
          o = w.backendOut /\ r = k.toBackend /\ b = UnitsOf(Unread(w))
    BY <1>1, <2>1, UnreadCounted
  <2>3. Unread(v) = Unread(w)
    BY DEF Unread, BackendTook
  <2>4. PICK p \in UnitSeqs : /\ p = o \o r /\ p # <<>> /\ Head(p) = Head(o)
                              /\ Tail(p) = Tail(o) \o r
    <3>1. o \o r \in UnitSeqs /\ o # <<>>
      BY <2>2, Joined
    <3>2. o \o r # <<>> /\ Head(o \o r) = Head(o) /\ Tail(o \o r) = Tail(o) \o r
      BY <3>1, FirstOut
    <3> QED
      BY <3>1, <3>2
  <2>5. p \o b # <<>> /\ Head(p \o b) = Head(p) /\ Tail(p \o b) = Tail(p) \o b
    BY <2>4, FirstOut
  <2>6. ToBackendPipe(s, k, w) = p \o b /\ ToBackendPipe(s, k, v) = Tail(p) \o b
    BY <1>5, <2>2, <2>3, <2>4 DEF ToBackendPipe, BackendTook
  <2> QED
    BY <1>3, <2>2, <2>4, <2>5, <2>6 DEF BackendTook
<1> QED
  BY <1>4, <1>5

\* A reset empties the pipe towards the peer and leaves the other alone.
LEMMA ClientResetEmpties ==
  ASSUME NEW s, NEW k, NEW w, NEW v, v.client = "reset", v.clientOut = <<>>,
         v.backend = w.backend, v.backendOut = w.backendOut, v.shaken = w.shaken,
         v.ssl = w.ssl, v.clientIn = w.clientIn
  PROVE  ToClientPipe(s, k, v) = <<>> /\ ToBackendPipe(s, k, v) = ToBackendPipe(s, k, w)
BY DEF ToClientPipe, ToBackendPipe, Gone, Unread

LEMMA BackendResetEmpties ==
  ASSUME NEW s, NEW k, NEW w, NEW v, v.backend = "reset", v.backendOut = <<>>,
         v.client = w.client, v.clientOut = w.clientOut, v.pushed = w.pushed,
         v.backendIn = w.backendIn
  PROVE  ToBackendPipe(s, k, v) = <<>> /\ ToClientPipe(s, k, v) = ToClientPipe(s, k, w)
BY DEF ToClientPipe, ToBackendPipe, Gone

\* A close cuts both pipes.
LEMMA CloseCuts ==
  ASSUME NEW s, NEW k, NEW w, WireOK(w), s # "closed" => Fits(k, w), NEW j, NEW v,
         v.clientOut \in {w.clientOut, <<>>}, v.backendOut \in {w.backendOut, <<>>}
  PROVE  /\ StartOf(ToClientPipe(s, k, w), ToClientPipe("closed", j, v))
         /\ StartOf(ToBackendPipe(s, k, w), ToBackendPipe("closed", j, v))
<1>1. ToClientPipe("closed", j, v) = v.clientOut /\ ToBackendPipe("closed", j, v) = v.backendOut
  BY DEF ToClientPipe, ToBackendPipe, Gone
<1>2. Pipeline(s, k, w) /\ w.clientOut \in UnitSeqs /\ w.backendOut \in UnitSeqs
  BY PipelineOK, WireTyped
<1>3. PICK a \in UnitSeqs, b \in UnitSeqs : a = w.clientOut /\ ToClientPipe(s, k, w) = a \o b
  BY <1>2 DEF Pipeline
<1>4. PICK d \in UnitSeqs, e \in UnitSeqs : d = w.backendOut /\ ToBackendPipe(s, k, w) = d \o e
  BY <1>2 DEF Pipeline
<1>5. StartOf(a \o b, a) /\ StartOf(a \o b, <<>>) /\ StartOf(d \o e, d) /\ StartOf(d \o e, <<>>)
  BY Ending
<1> QED
  BY <1>1, <1>3, <1>4, <1>5

LEMMA AfterCloseOut ==
  ASSUME NEW w, w \in WireType
  PROVE  /\ AfterClose(w).clientOut \in {w.clientOut, <<>>}
         /\ AfterClose(w).backendOut \in {w.backendOut, <<>>}
         /\ AfterClose(w).clientGot = w.clientGot /\ AfterClose(w).backendGot = w.backendGot
         /\ AfterClose(w).unitsSent = w.unitsSent /\ AfterClose(w).recordsSent = w.recordsSent
BY DEF AfterClose, WireType
=============================================================================
