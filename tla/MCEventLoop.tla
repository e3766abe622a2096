---------------------------- MODULE MCEventLoop ----------------------------
(* EventLoop with two descriptor numbers and three handles, so that the    *)
(* number of a closed handle is handed to another while events for it are  *)
(* still in a batch.                                                       *)
EXTENDS EventLoop, TLC

CONSTANTS a, b, c

MCFds == {3, 4}
MCHandles == {a, b, c}
MCMasks == {{}, {"in"}}
MCConditions == {"in", "hup"}

(* One number, two handles, three immediates: the smallest setting in which *)
(* immediates queue immediates while events are delivered and descriptors  *)
(* reused.                                                                 *)
MCFdsOne == {3}
MCHandlesTwo == {a, b}
MCMasksOne == {{"in"}}
MCConditionsIn == {"in"}

(* Handles are interchangeable: no definition singles one out. *)
HandleSymmetry == Permutations(MCHandles)
=============================================================================
