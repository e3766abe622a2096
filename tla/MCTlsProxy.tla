----------------------------- MODULE MCTlsProxy -----------------------------
(* TlsProxy with descriptor numbers 3 (the listener) and up.               *)
EXTENDS TlsProxy, TLC

CONSTANTS c1, c2

OneClient == {c1}
TwoClients == {c1, c2}
ThreeFds == 3..5
FiveFds == 3..7
CloseAndReset == {"close", "reset"}
CloseOnly == {"close"}
NoFailures == {}

ClientSymmetry == Permutations(TwoClients)
=============================================================================
