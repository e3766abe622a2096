------------------------------- MODULE Pipes -------------------------------
(***************************************************************************)
(* What the relay of runtime/proxy.js promises the two ends of a           *)
(* connection: "relay raw decrypted bytes to the plaintext backend and     *)
(* vice versa" (proxy.js:4-5).  Between a client and its backend there are *)
(* two pipes, one towards each, and no relay: no records, chunks, short    *)
(* writes, backlogs, descriptors or events.                                *)
(*                                                                         *)
(* A pipe delivers what was written to it, in order and once.  It may be   *)
(* cut: it then loses the end of what is in it, and nothing written later  *)
(* arrives.  Units are numbered as they are written.  TlsProxy implements  *)
(* this.                                                                   *)
(***************************************************************************)
EXTENDS Integers, Sequences

CONSTANTS
  Clients,
  Sizes         \* how many units one write may have

Ends == Clients \X {"client", "backend"}

\* Of the pipe towards each end
VARIABLES
  sent,         \* units written so far
  inFlight,     \* units written, neither delivered nor lost
  got,          \* units delivered
  cut

vars == <<sent, inFlight, got, cut>>

Init ==
  /\ sent = [e \in Ends |-> 0]
  /\ inFlight = [e \in Ends |-> <<>>]
  /\ got = [e \in Ends |-> <<>>]
  /\ cut = [e \in Ends |-> FALSE]

Run(a, n) == [i \in 1..n |-> a + i]

\* Writing to a pipe that is cut is in vain.
Write(e) ==
  \E n \in Sizes :
    /\ sent' = [sent EXCEPT ![e] = @ + n]
    /\ inFlight' = IF cut[e] THEN inFlight
                   ELSE [inFlight EXCEPT ![e] = @ \o Run(sent[e], n)]
    /\ UNCHANGED <<got, cut>>

Deliver(e) ==
  /\ inFlight[e] # <<>>
  /\ got' = [got EXCEPT ![e] = Append(@, Head(inFlight[e]))]
  /\ inFlight' = [inFlight EXCEPT ![e] = Tail(@)]
  /\ UNCHANGED <<sent, cut>>

\* The end of the pipe is gone, with what was in it.
Reset(e) ==
  /\ cut' = [cut EXCEPT ![e] = TRUE]
  /\ inFlight' = [inFlight EXCEPT ![e] = <<>>]
  /\ UNCHANGED <<sent, got>>

\* Both pipes of a client end.  What is in them may still arrive, up to
\* where they are cut.
Close(c) ==
  LET a == <<c, "client">>
      b == <<c, "backend">>
  IN  /\ cut' = [cut EXCEPT ![a] = TRUE, ![b] = TRUE]
      /\ \E m \in 0..Len(inFlight[a]), n \in 0..Len(inFlight[b]) :
           inFlight' = [inFlight EXCEPT ![a] = SubSeq(@, 1, m), ![b] = SubSeq(@, 1, n)]
      /\ UNCHANGED <<sent, got>>

Next ==
  \/ \E e \in Ends : Write(e) \/ Deliver(e) \/ Reset(e)
  \/ \E c \in Clients : Close(c)

Spec == Init /\ [][Next]_vars
=============================================================================
