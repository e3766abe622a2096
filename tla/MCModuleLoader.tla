--------------------------- MODULE MCModuleLoader ---------------------------
(* a imports b and d, b imports d; the body of d imports d and a again.    *)
(* b comes from the asynchronous hook only.                                *)
EXTENDS ModuleLoader

CONSTANTS a, b, d

MCModules == {a, b, d}
MCRequests == [m \in MCModules |->
  IF m = a THEN <<b, d>> ELSE IF m = b THEN <<d>> ELSE <<>>]
MCDynamic == [m \in MCModules |-> IF m = d THEN {a, d} ELSE {}]
MCHooked == {b}
MCLocal == {a, d}
MCMayAwait == {b, d}
MCMayThrow == {b, d}
=============================================================================
