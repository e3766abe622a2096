-------------------------------- MODULE Dns --------------------------------
(***************************************************************************)
(* A lookup of lib/dns.js over lib/udp.js: the hosts file first, then one  *)
(* datagram to a server from a socket of the lookup's own, and a callback  *)
(* for every datagram that comes back while the socket is open.  The       *)
(* timeout is commented out in the source, and there is no retry.          *)
(*                                                                         *)
(* Every Resolver that a caller in the repository makes serves one lookup, *)
(* so its cache never answers.                                             *)
(***************************************************************************)
EXTENDS Naturals, Sequences

CONSTANTS
  Lookups,
  MaxCopies   \* bound: times the network delivers one answer

VARIABLES
  node,       \* the UDP socket of a lookup and its registration
  query,      \* the query is under way
  answer,     \* what the server answered
  copies,     \* deliveries of the answer that are still to come
  told        \* the calls of onRecord(err, ip) so far

vars == <<node, query, answer, copies, told>>

\* "address": a record of type A under the name asked for, or at the end of
\* a chain of CNAMEs.  "empty": no answer records, or no bytes at all.
\* "dangling": records that lead to no address.
Answers == {"address", "empty", "dangling"}

Init ==
  /\ node = [l \in Lookups |-> "none"]
  /\ query = [l \in Lookups |-> FALSE]
  /\ answer = [l \in Lookups |-> "none"]
  /\ copies = [l \in Lookups |-> 0]
  /\ told = [l \in Lookups |-> <<>>]

Tell(l, what) == told' = [told EXCEPT ![l] = Append(@, what)]

Fresh(l) == node[l] = "none" /\ told[l] = <<>>

\* lookupHosts finds the name: onRecord is called before lookup returns.
FoundInHosts(l) ==
  /\ Fresh(l)
  /\ Tell(l, "ip")
  /\ UNCHANGED <<node, query, answer, copies>>

Send(l) ==
  /\ Fresh(l)
  /\ node' = [node EXCEPT ![l] = "open"]
  /\ query' = [query EXCEPT ![l] = TRUE]
  /\ UNCHANGED <<answer, copies, told>>

SendFails(l) ==
  /\ Fresh(l)
  /\ node' = [node EXCEPT ![l] = "closed"]
  /\ Tell(l, "error")
  /\ UNCHANGED <<query, answer, copies>>

\* The query and the answer may be lost, and the answer duplicated: n copies
\* of it arrive.
Serve(l, a, n) ==
  /\ query[l]
  /\ query' = [query EXCEPT ![l] = FALSE]
  /\ answer' = [answer EXCEPT ![l] = a]
  /\ copies' = [copies EXCEPT ![l] = n]
  /\ UNCHANGED <<node, told>>

Arrives(l) ==
  /\ node[l] = "open" /\ copies[l] > 0
  /\ copies' = [copies EXCEPT ![l] = @ - 1]
  /\ UNCHANGED <<query, answer>>

\* Slip: the branch of an answer without its node.close()
SucceedsLeavingNode(l) ==
  /\ Arrives(l)
  /\ answer[l] = "address"
  /\ Tell(l, "ip")
  /\ UNCHANGED node

\* The readable callback.  With an address the socket is closed and the
\* caller told; with an empty answer the caller is told, and the socket
\* stays open for the next copy.
Succeeds(l) ==
  /\ Arrives(l)
  /\ answer[l] = "address"
  /\ node' = [node EXCEPT ![l] = "closed"]
  /\ Tell(l, "ip")

Fails(l) ==
  /\ Arrives(l)
  /\ answer[l] = "empty"
  /\ Tell(l, "error")
  /\ UNCHANGED node

\* dict[q] is undefined, a TypeError out of the callback and of poll(); or
\* the CNAMEs are a cycle, and the while loop does not end.
Throws(l) ==
  /\ Arrives(l)
  /\ answer[l] = "dangling"
  /\ UNCHANGED <<node, told>>

-----------------------------------------------------------------------------

TypeOK ==
  /\ node \in [Lookups -> {"none", "open", "closed"}]
  /\ query \in [Lookups -> BOOLEAN]
  /\ answer \in [Lookups -> Answers \cup {"none"}]
  /\ copies \in [Lookups -> 0..MaxCopies]
  /\ told \in [Lookups -> Seq({"ip", "error"})]

\* A lookup speaks with one voice: an address is told once and is the last
\* thing told, whatever the network duplicates, and then no socket is left.
\* Errors are told once per copy of the answer, and only there the socket
\* stays: an empty answer leaks it.
OneVoice ==
  \A l \in Lookups :
    /\ \A i, j \in 1..Len(told[l]) : told[l][i] = "ip" => i = 1 /\ j = 1
    /\ told[l] # <<>> /\ node[l] = "open" => answer[l] = "empty"
=============================================================================
